---------------------------- MODULE Spec2Model ----------------------------
(***************************************************************************)
(* neki_lang: the relaxed-JSON (JSON5-like) parser of src/util/json5.rs    *)
(* and the patch generator of src/util/json_patch.rs.                      *)
(*                                                                         *)
(* A character is a TLA+ string of one character (a few characters that    *)
(* TLA+ cannot spell carry a symbolic name); a text, a key, a string value *)
(* and a pointer path are sequences of characters.  Option<char> is a      *)
(* character or None.                                                      *)
(***************************************************************************)
EXTENDS Integers, Sequences, FiniteSets, TLC

VARIABLES
  pc,          \* the step of the run: ready, parsed, failed, flat, done; the
               \* place a command is at, or has returned from
  source,      \* what the text was drawn from (tokens, characters, pairs);
               \* for a command, what it found when it started
  input,       \* the input file: is_patch and file_extension
  text,        \* the contents of the input file
  result,      \* what json5::parse returned
  json_value,  \* the parsed Value handed to generate_patch
  config,      \* the PatternConfig: extension to pattern list
  flat,        \* the PatchData without the test guard
  batched,     \* the PatchData with the test guard
  args,        \* the command line: gen with test, or init with force
  dir_whitelist,     \* gen: the directory whitelist of load_config
  entries,           \* gen: the directory entries WalkDir has still to yield
  input_files_map,   \* gen: path to (json_str, ext, is_patch), in insertion order
  output_files_map,  \* gen: output path to PatchData, in insertion order
  disk         \* the files a command writes: path to contents

vars ==
  <<pc, source, input, text, result, json_value, config, flat, batched,
    args, dir_whitelist, entries, input_files_map, output_files_map, disk>>

\* the state of the commands
cmd_vars == <<args, dir_whitelist, entries, input_files_map, output_files_map, disk>>

---------------------------------------------------------------------------
(* Characters *)

None == "None"

VT == "<VT>"
NBSP == "<NBSP>"
BOM == "<BOM>"
BS == "<BS>"
FF == "<FF>"

\* json5.rs WS: the characters white() skips
WS == {" ", "\t", "\r", "\n", VT, FF, NBSP, BOM}

DecDigits == {"0", "1", "2", "3", "4", "5", "6", "7", "8", "9"}

\* char::to_digit(16) / char::is_digit(16)
HexDigits == DecDigits \cup {"a", "b", "c", "d", "e", "f", "A", "B", "C", "D", "E", "F"}

\* char::is_digit(10)
is_digit10(c) == c \in DecDigits

\* char::is_digit(16)
is_digit16(c) == c \in HexDigits

\* char::to_digit(16) on a hexadecimal digit
to_digit(c) ==
  CASE c = "0" -> 0 [] c = "1" -> 1 [] c = "2" -> 2 [] c = "3" -> 3
    [] c = "4" -> 4 [] c = "5" -> 5 [] c = "6" -> 6 [] c = "7" -> 7
    [] c = "8" -> 8 [] c = "9" -> 9
    [] c \in {"a", "A"} -> 10 [] c \in {"b", "B"} -> 11
    [] c \in {"c", "C"} -> 12 [] c \in {"d", "D"} -> 13
    [] c \in {"e", "E"} -> 14 [] c \in {"f", "F"} -> 15

\* the characters escapee_get maps (Some(..)); every other one gives None
Escapees == {"'", "\"", "\\", "/", "\n", "b", "f", "n", "r", "t"}

\* escapee_get on a character of Escapees: the text the escape stands for.
\* The escaped line feed maps to the empty string.
escapee_get(esc) ==
  CASE esc = "'" -> <<"'">>
    [] esc = "\"" -> <<"\"">>
    [] esc = "\\" -> <<"\\">>
    [] esc = "/" -> <<"/">>
    [] esc = "\n" -> <<>>
    [] esc = "b" -> <<BS>>
    [] esc = "f" -> <<FF>>
    [] esc = "n" -> <<"\n">>
    [] esc = "r" -> <<"\r">>
    [] esc = "t" -> <<"\t">>

\* render_char: the quoted character of an "Expected ..." message
render_char(c) == IF c = "<NUL>" THEN "EOF" ELSE "'" \o c \o "'"

\* self.ch.map_or("EOF", render_char)
render_opt(ch) == IF ch = None THEN "EOF" ELSE render_char(ch)

---------------------------------------------------------------------------
(* Values (serde_json::Value) *)

Null == [t |-> "null"]
Bool(b) == [t |-> "bool", b |-> b]
Str(s) == [t |-> "str", s |-> s]
Arr(a) == [t |-> "arr", a |-> a]
Obj(o) == [t |-> "obj", o |-> o]

\* Option<&Value>::None
NoValue == [t |-> "none"]

---------------------------------------------------------------------------
(* Parser: the cursor and its diagnostics *)

Min(a, b) == IF a < b THEN a ELSE b

\* Parser::new
new(input_str) ==
  [at |-> 0, line_number |-> 1, column_number |-> 1, ch |-> " ", text |-> input_str]

Ok(p, v) == [ok |-> TRUE, p |-> p, v |-> v]
Err(e) == [ok |-> FALSE, err |-> e]

\* The outcome of one iteration of a loop: the loop goes on from cursor p
\* with the loop's data st, or it is left (break, return, ?) with out.
Again(p, st) == [again |-> TRUE, p |-> p, st |-> st]
Exit(out) == [again |-> FALSE, out |-> out]

\* Parser::error: the message, the position and the snippet text[start..end);
\* slicing with start > end panics.  The record keeps the cursor index at.
error(p, msg) ==
  LET start == IF p.at >= 1 THEN p.at - 1 ELSE 0
      end == Min(p.at + 19, Len(p.text))
  IN  [message |-> msg, line |-> p.line_number, column |-> p.column_number,
       at |-> p.at, panic |-> start > end,
       snippet |-> IF start > end THEN <<>> ELSE SubSeq(p.text, start + 1, end)]

\* Parser::peek
peek(p) == IF p.at < Len(p.text) THEN p.text[p.at + 1] ELSE None

\* Parser::next, lines 93..106: fetch the next character and count lines
advance(p) ==
  LET counted(p1) ==
        IF p1.ch # None /\ (p1.ch = "\n" \/ (p1.ch = "\r" /\ peek(p1) # "\n"))
        THEN [p1 EXCEPT !.line_number = @ + 1, !.column_number = 0]
        ELSE p1
  IN  counted([p EXCEPT !.ch = peek(p), !.at = @ + 1, !.column_number = @ + 1])

\* Parser::next
next(p, expect) ==
  LET fetched(p1) == Ok(p1, p1.ch)
  IN  IF expect # None /\ p.ch # expect
      THEN Err(error(p, "Expected " \o render_char(expect) \o " instead of " \o render_opt(p.ch)))
      ELSE fetched(advance(p))

\* a run of self.next(Some(c))? calls, as in Parser::word
RECURSIVE expect_all(_, _)
expect_all(p, cs) ==
  LET then(r) == IF r.ok THEN expect_all(r.p, Tail(cs)) ELSE r
  IN  IF cs = <<>> THEN Ok(p, None) ELSE then(next(p, Head(cs)))

---------------------------------------------------------------------------
(* Parser: whitespace and comments *)

\* a line comment loop that reads once more at the end of input
inline_step_overrun(p) ==
  LET at(p1) == IF p1.ch \in {"\n", "\r"} \/ p1.ch = None THEN Exit(Ok(advance(p1), None))
                ELSE Again(p1, None)
  IN  at(advance(p))

\* Parser::inline_comment, one iteration of the loop
inline_step(p) ==
  LET at(p1) == IF p1.ch \in {"\n", "\r"} THEN Exit(Ok(advance(p1), None))
                ELSE IF p1.ch = None THEN Exit(Ok(p1, None))
                ELSE Again(p1, None)
  IN  at(advance(p))

\* Parser::inline_comment, the loop
RECURSIVE inline_loop(_)
inline_loop(p) ==
  LET go(s) == IF s.again THEN inline_loop(s.p) ELSE s.out
  IN  go(inline_step(p))

\* Parser::inline_comment
inline_comment(p) ==
  IF p.ch # "/" THEN Err(error(p, "Not an inline comment")) ELSE inline_loop(p)

\* Parser::block_comment, one iteration of the inner while, its condition
\* included: the comment is closed (out.v = None) or the while is left with
\* the comment still open
star_step(p) ==
  LET starred(p1) == IF p1.ch = "/" THEN Exit(Ok(advance(p1), None)) ELSE Again(p1, None)
  IN  IF p.ch = "*" THEN starred(advance(p)) ELSE Exit(Ok(p, "open"))

\* Parser::block_comment, the inner while
RECURSIVE block_stars(_)
block_stars(p) ==
  LET go(s) == IF s.again THEN block_stars(s.p) ELSE s.out
  IN  go(star_step(p))

\* Parser::block_comment, one iteration of the outer loop
block_step(p) ==
  LET after(r) ==
        IF r.v # "open" THEN Exit(r)
        ELSE IF r.p.ch = None THEN Exit(Err(error(r.p, "Unterminated block comment")))
        ELSE Again(r.p, None)
  IN  after(block_stars(advance(p)))

\* Parser::block_comment, the outer loop
RECURSIVE block_loop(_)
block_loop(p) ==
  LET go(s) == IF s.again THEN block_loop(s.p) ELSE s.out
  IN  go(block_step(p))

\* Parser::block_comment
block_comment(p) ==
  IF p.ch # "*" THEN Err(error(p, "Not a block comment")) ELSE block_loop(p)

\* a comment reader that knows line comments only
comment_line_only(p) ==
  LET kind(p1) == IF p1.ch = "/" THEN inline_comment(p1)
                  ELSE Err(error(p1, "Unrecognized comment"))
  IN  IF p.ch # "/" THEN Err(error(p, "Not a comment")) ELSE kind(advance(p))

\* Parser::comment
comment(p) ==
  LET kind(p1) == CASE p1.ch = "/" -> inline_comment(p1)
                    [] p1.ch = "*" -> block_comment(p1)
                    [] OTHER -> Err(error(p1, "Unrecognized comment"))
  IN  IF p.ch # "/" THEN Err(error(p, "Not a comment")) ELSE kind(advance(p))

\* a whitespace loop that takes the end of input for one more blank
white_step_past_end(p) ==
  LET skipped(r) == IF r.ok THEN Again(r.p, None) ELSE Exit(r)
  IN  CASE p.ch = "/" -> skipped(comment(p))
        [] p.ch \in WS \/ (p.ch = None /\ p.at = Len(p.text) + 1) -> Again(advance(p), None)
        [] OTHER -> Exit(Ok(p, None))

\* Parser::white, one iteration of the loop
white_step(p) ==
  LET skipped(r) == IF r.ok THEN Again(r.p, None) ELSE Exit(r)
  IN  CASE p.ch = "/" -> skipped(comment(p))
        [] p.ch \in WS -> Again(advance(p), None)
        [] OTHER -> Exit(Ok(p, None))

\* Parser::white
RECURSIVE white(_)
white(p) ==
  LET go(s) == IF s.again THEN white(s.p) ELSE s.out
  IN  go(white_step(p))

---------------------------------------------------------------------------
(* Parser: words and strings *)

\* a word reader for true, false and null only
word_literals(p) ==
  LET got(r, v) == IF r.ok THEN Ok(r.p, v) ELSE r
  IN  CASE p.ch = "t" -> got(expect_all(p, <<"t", "r", "u", "e">>), Bool(TRUE))
        [] p.ch = "f" -> got(expect_all(p, <<"f", "a", "l", "s", "e">>), Bool(FALSE))
        [] p.ch = "n" -> got(expect_all(p, <<"n", "u", "l", "l">>), Null)
        [] OTHER -> Err(error(p, "Unexpected " \o render_opt(p.ch)))

\* Parser::word
word(p) ==
  LET got(r, v) == IF r.ok THEN Ok(r.p, v) ELSE r
  IN  CASE p.ch = "t" -> got(expect_all(p, <<"t", "r", "u", "e">>), Bool(TRUE))
        [] p.ch = "f" -> got(expect_all(p, <<"f", "a", "l", "s", "e">>), Bool(FALSE))
        [] p.ch = "n" -> got(expect_all(p, <<"n", "u", "l", "l">>), Null)
        [] p.ch = "I" -> got(expect_all(p, <<"I", "n", "f", "i", "n", "i", "t", "y">>),
                             Str(<<"I", "n", "f", "i", "n", "i", "t", "y">>))
        [] p.ch = "N" -> got(expect_all(p, <<"N", "a", "N">>), Str(<<"N", "a", "N">>))
        [] OTHER -> Err(error(p, "Unexpected " \o render_opt(p.ch)))

\* std::char::from_u32 on a code point below 0x10000: None for a surrogate
valid_codepoint(n) == ~(55296 <= n /\ n <= 57343)

\* the character of a code point: the characters the model spells, and a
\* symbolic name for every other one
char_of(n) ==
  CASE n = 10 -> "\n" [] n = 13 -> "\r" [] n = 32 -> " " [] n = 34 -> "\""
    [] n = 39 -> "'" [] n = 47 -> "/" [] n = 48 -> "0" [] n = 49 -> "1"
    [] n = 65 -> "A" [] n = 97 -> "a" [] n = 98 -> "b"
    [] OTHER -> "U+" \o ToString(n)

\* Parser::string, the for loop of the \uXXXX escape: k digits are still to
\* be read, uffff is the value so far
RECURSIVE unicode_loop(_, _, _)
unicode_loop(p, k, uffff) ==
  LET digit(p1) == IF p1.ch # None /\ is_digit16(p1.ch)
                   THEN unicode_loop(p1, k - 1, uffff * 16 + to_digit(p1.ch))
                   ELSE Err(error(p1, "Invalid Unicode escape in string"))
  IN  IF k = 0 THEN Ok(p, uffff) ELSE digit(advance(p))

\* Parser::string, one iteration of the while loop, its condition included:
\* p.ch is the last character consumed, res the string so far
string_step(p, delim, res) ==
  LET unicode(u) ==
        IF ~u.ok THEN Exit(u)
        ELSE IF valid_codepoint(u.v)
        THEN Again(u.p, Append(res, char_of(u.v)))
        ELSE Exit(Err(error(u.p, "Invalid Unicode codepoint in string")))
      escape(p2) ==
        CASE p2.ch = "u" -> unicode(unicode_loop(p2, 4, 0))
          [] p2.ch = "\r" ->
               Again(IF peek(p2) = "\n" THEN advance(p2) ELSE p2, res)
          [] p2.ch = None ->
               Exit(Err(error(p2, "Unexpected end of input in string escape")))
          [] OTHER ->
               IF p2.ch \in Escapees
               THEN Again(p2, res \o escapee_get(p2.ch))
               ELSE Exit(Err(error(p2, "Invalid escape character: " \o p2.ch)))
      at(p1) ==
        IF p1.ch = None THEN Exit(Err(error(p1, "Bad string")))
        ELSE IF p1.ch = delim THEN Exit(Ok(advance(p1), Str(res)))
        ELSE IF p1.ch = "\\" THEN escape(advance(p1))
        ELSE IF p1.ch = "\r" THEN Again(p1, res)
        ELSE Again(p1, Append(res, p1.ch))
  IN  at(advance(p))

\* Parser::string, the while loop
RECURSIVE string_loop(_, _, _)
string_loop(p, delim, res) ==
  LET go(s) == IF s.again THEN string_loop(s.p, delim, s.st) ELSE s.out
  IN  go(string_step(p, delim, res))

\* a string reader that accepts a literal the input ends in
string_open(p) ==
  LET closed(r) == IF ~r.ok /\ r.err.message = "Bad string"
                   THEN Ok([p EXCEPT !.at = Len(p.text) + 1, !.ch = None], Str(<<>>))
                   ELSE r
  IN  IF p.ch \in {"\"", "'"} THEN closed(string_loop(p, p.ch, <<>>))
      ELSE Err(error(p, "Bad string: expected starting quote"))

\* Parser::string
string(p) ==
  IF p.ch \in {"\"", "'"} THEN string_loop(p, p.ch, <<>>)
  ELSE Err(error(p, "Bad string: expected starting quote"))

---------------------------------------------------------------------------
(* Numbers.                                                                *)
(*                                                                         *)
(* A magnitude is a decimal m * 10^e: m a sequence of digits without       *)
(* leading or trailing zeros, zero being << >> with e = 0.  An f64 is      *)
(* [cls, neg, m, e] with cls "finite", "inf" or "nan"; a finite f64 that   *)
(* a decimal lexeme evaluates to carries the decimal whose nearest double  *)
(* it is.  For the lexemes the model draws (fewer than 16 significant      *)
(* digits) that double is an integer exactly when the decimal is one or    *)
(* underflows to zero, and every integer up to 2^64 among them is a double *)
(* exactly, so the comparisons below are those of the doubles.             *)
(***************************************************************************)

RECURSIVE strip_leading(_)
strip_leading(ds) ==
  IF ds # <<>> /\ Head(ds) = 0 THEN strip_leading(Tail(ds)) ELSE ds

RECURSIVE strip_trailing(_, _)
strip_trailing(ds, e) ==
  IF ds # <<>> /\ ds[Len(ds)] = 0
  THEN strip_trailing(SubSeq(ds, 1, Len(ds) - 1), e + 1)
  ELSE [m |-> ds, e |-> IF ds = <<>> THEN 0 ELSE e]

\* the magnitude ds * 10^e in normal form
Normalize(ds, e) == strip_trailing(strip_leading(ds), e)

\* -1, 0, 1: the order of two digit sequences read as fractions 0.d1d2...
RECURSIVE LexCmp(_, _)
LexCmp(a, b) ==
  LET heads(x, y) ==
        IF x < y THEN -1 ELSE IF x > y THEN 1
        ELSE LexCmp(IF a = <<>> THEN a ELSE Tail(a), IF b = <<>> THEN b ELSE Tail(b))
  IN  IF a = <<>> /\ b = <<>> THEN 0
      ELSE heads(IF a = <<>> THEN 0 ELSE Head(a), IF b = <<>> THEN 0 ELSE Head(b))

\* -1, 0, 1: the order of two magnitudes in normal form
CmpMag(a, b) ==
  IF a.m = <<>> \/ b.m = <<>>
  THEN (IF a.m = <<>> /\ b.m = <<>> THEN 0 ELSE IF a.m = <<>> THEN -1 ELSE 1)
  ELSE IF Len(a.m) + a.e < Len(b.m) + b.e THEN -1
  ELSE IF Len(a.m) + a.e > Len(b.m) + b.e THEN 1
  ELSE LexCmp(a.m, b.m)

\* the digits of a natural number
RECURSIVE DigitsOf(_)
DigitsOf(n) == IF n < 10 THEN <<n>> ELSE Append(DigitsOf(n \div 10), n % 10)

\* the natural number a sequence of digit characters spells in a radix
RECURSIVE NatOf(_, _)
NatOf(cs, radix) ==
  IF cs = <<>> THEN 0
  ELSE NatOf(SubSeq(cs, 1, Len(cs) - 1), radix) * radix + to_digit(cs[Len(cs)])

\* i64::MAX as f64 = -(i64::MIN as f64) = 2^63
I64_MAX_F == [m |-> <<9, 2, 2, 3, 3, 7, 2, 0, 3, 6, 8, 5, 4, 7, 7, 5, 8, 0, 8>>, e |-> 0]

\* u64::MAX as f64 = 2^64
U64_MAX_F == [m |-> <<1, 8, 4, 4, 6, 7, 4, 4, 0, 7, 3, 7, 0, 9, 5, 5, 1, 6, 1, 6>>, e |-> 0]

\* u64::MAX = 2^64 - 1
U64_MAX == [m |-> <<1, 8, 4, 4, 6, 7, 4, 4, 0, 7, 3, 7, 0, 9, 5, 5, 1, 6, 1, 5>>, e |-> 0]

\* 2^1024 - 2^970, the least magnitude that rounds to infinity (30 digits)
F64_OVERFLOW == [m |-> <<1, 7, 9, 7, 6, 9, 3, 1, 3, 4, 8, 6, 2, 3, 1, 5, 8, 0, 7, 9,
                         3, 7, 2, 8, 9, 7, 1, 4, 0, 5>>, e |-> 279]

\* 2^-1075, the greatest magnitude that rounds to zero (30 digits)
F64_UNDERFLOW == [m |-> <<2, 4, 7, 0, 3, 2, 8, 2, 2, 9, 2, 0, 6, 2, 3, 2, 7, 2, 0, 8,
                          8, 2, 8, 4, 3, 9, 6, 4, 3, 4>>, e |-> -353]

Finite(neg, d) == [cls |-> "finite", neg |-> neg, m |-> d.m, e |-> d.e]
Infinite(neg) == [cls |-> "inf", neg |-> neg, m |-> <<>>, e |-> 0]
NaN == [cls |-> "nan", neg |-> FALSE, m |-> <<>>, e |-> 0]

\* the nearest double of a magnitude: overflow to infinity, underflow to zero
round_f64(d) ==
  IF CmpMag(d, F64_OVERFLOW) >= 0 THEN Infinite(FALSE)
  ELSE IF CmpMag(d, F64_UNDERFLOW) <= 0 THEN Finite(FALSE, Normalize(<<>>, 0))
  ELSE Finite(FALSE, d)

\* the first index from i on that holds no decimal digit
RECURSIVE digit_run(_, _)
digit_run(s, i) ==
  IF i <= Len(s) /\ is_digit10(s[i]) THEN digit_run(s, i + 1) ELSE i

\* str::parse::<f64> on the lexeme number() accumulates (no sign): digits, an
\* optional '.' and digits, an optional exponent; at least one mantissa digit
\* and, after e/E, at least one exponent digit, or the parse fails
parse_f64(s) ==
  LET built(intd, fracd, hasexp, expd, minus, iend) ==
        IF /\ Len(intd) + Len(fracd) > 0
           /\ hasexp => Len(expd) > 0
           /\ iend = Len(s) + 1
        THEN [ok |-> TRUE,
              f |-> round_f64(Normalize(
                      [i \in 1..(Len(intd) + Len(fracd)) |-> to_digit((intd \o fracd)[i])],
                      (IF minus THEN -1 ELSE 1) * NatOf(expd, 10) - Len(fracd)))]
        ELSE [ok |-> FALSE]
      exp_to(intd, fracd, i3, i4, minus) ==
        built(intd, fracd, TRUE, SubSeq(s, i3, i4 - 1), minus, i4)
      exp_from(intd, fracd, i3, minus) == exp_to(intd, fracd, i3, digit_run(s, i3), minus)
      mantissa(intd, fracd, i2) ==
        IF i2 <= Len(s) /\ s[i2] \in {"e", "E"}
        THEN IF i2 + 1 <= Len(s) /\ s[i2 + 1] \in {"+", "-"}
             THEN exp_from(intd, fracd, i2 + 2, s[i2 + 1] = "-")
             ELSE exp_from(intd, fracd, i2 + 1, FALSE)
        ELSE built(intd, fracd, FALSE, <<>>, FALSE, i2)
      frac_to(i1, i2) == mantissa(SubSeq(s, 1, i1 - 1), SubSeq(s, i1 + 1, i2 - 1), i2)
      int_to(i1) ==
        IF i1 <= Len(s) /\ s[i1] = "." THEN frac_to(i1, digit_run(s, i1 + 1))
        ELSE mantissa(SubSeq(s, 1, i1 - 1), <<>>, i1)
  IN  int_to(digit_run(s, 1))

\* string.trim_start_matches("0x").trim_start_matches("0X")
RECURSIVE trim_start_matches(_, _)
trim_start_matches(s, pat) ==
  IF Len(s) >= Len(pat) /\ SubSeq(s, 1, Len(pat)) = pat
  THEN trim_start_matches(SubSeq(s, Len(pat) + 1, Len(s)), pat)
  ELSE s

\* u64::from_str_radix(digits, 16): fails on the empty string and on a value
\* above u64::MAX (more than 16 significant digits)
from_str_radix16(s) ==
  LET RECURSIVE drop(_)
      drop(t) == IF t # <<>> /\ Head(t) = "0" THEN drop(Tail(t)) ELSE t
      valued(sig) == IF s = <<>> \/ Len(sig) > 16 THEN [ok |-> FALSE]
                     ELSE [ok |-> TRUE, n |-> NatOf(sig, 16)]
  IN  valued(drop(s))

\* f64::fract() == 0.0 on a finite double
fract_is_zero(f) == f.m = <<>> \/ f.e >= 0

\* number >= (i64::MIN as f64) && number <= (i64::MAX as f64)
in_i64_f(f) == CmpMag(f, I64_MAX_F) <= 0

\* number >= 0.0 && number <= (u64::MAX as f64)
in_u64_f(f) == (f.m = <<>> \/ ~f.neg) /\ CmpMag(f, U64_MAX_F) <= 0

\* Option<Number>::None
NoNumber == [t |-> "none"]

PosInt(d) == [t |-> "num", n |-> "PosInt", neg |-> FALSE, m |-> d.m, e |-> d.e]
NegInt(d) == [t |-> "num", n |-> "NegInt", neg |-> TRUE, m |-> d.m, e |-> d.e]
Float(f) == [t |-> "num", n |-> "Float", neg |-> f.neg, m |-> f.m, e |-> f.e]

\* serde_json::Number::from_i128 on a whole double cast to i128: a u64 first,
\* then an i64, else None
from_i128(f) ==
  IF f.m = <<>> \/ (~f.neg /\ CmpMag(f, U64_MAX) <= 0) THEN PosInt(f)
  ELSE IF f.neg /\ CmpMag(f, I64_MAX_F) <= 0 THEN NegInt(f)
  ELSE NoNumber

\* serde_json::Number::from_u128 on a whole non-negative double cast to u128
from_u128(f) == IF CmpMag(f, U64_MAX) <= 0 THEN PosInt(f) ELSE NoNumber

\* serde_json::Number::from_f64: None unless the double is finite
from_f64(f) == IF f.cls = "finite" THEN Float(f) ELSE NoNumber

---------------------------------------------------------------------------
(* Parser: numbers *)

\* Some(num) => Ok(Value::Number(num)), None => Err("Bad number")
number_or_bad(p, num) ==
  IF num = NoNumber THEN Err(error(p, "Bad number")) ELSE Ok(p, num)

\* Parser::number, one iteration of a digit loop, its condition included
digit_step(p, str, radix) ==
  IF p.ch # None /\ (IF radix = 16 THEN is_digit16(p.ch) ELSE is_digit10(p.ch))
  THEN Again(advance(p), Append(str, p.ch))
  ELSE Exit([p |-> p, string |-> str])

\* Parser::number, the digit loops: the cursor and the lexeme so far
RECURSIVE scan_digits(_, _, _)
scan_digits(p, str, radix) ==
  LET go(s) == IF s.again THEN scan_digits(s.p, s.st, radix) ELSE s.out
  IN  go(digit_step(p, str, radix))

\* Parser::number, lines 160..173: a leading 0, then 0x/0X or the octal error
scan_zero(p) ==
  LET after(p1) ==
        IF p1.ch \in {"x", "X"}
        THEN [ok |-> TRUE, p |-> advance(p1), string |-> <<"0", p1.ch>>, base |-> 16]
        ELSE IF p1.ch # None /\ is_digit10(p1.ch)
        THEN Err(error(p1, "Octal literal"))
        ELSE [ok |-> TRUE, p |-> p1, string |-> <<"0">>, base |-> 10]
  IN  IF p.ch # "0" THEN [ok |-> TRUE, p |-> p, string |-> <<>>, base |-> 10]
      ELSE after(advance(p))

\* Parser::number, lines 176..221: the decimal lexeme; is_float is set by a
\* '.' and by an exponent
scan_decimal(p, str) ==
  LET lexeme(c, is_float) == [p |-> c.p, string |-> c.string, is_float |-> is_float]
      exp_sign(b, c0) ==
        lexeme(IF c0.ch \in {"-", "+"}
               THEN scan_digits(advance(c0), b.string \o <<b.p.ch, c0.ch>>, 10)
               ELSE scan_digits(c0, Append(b.string, b.p.ch), 10),
               TRUE)
      exp_part(b, dot) ==
        IF b.p.ch \in {"e", "E"} THEN exp_sign(b, advance(b.p)) ELSE lexeme(b, dot)
      frac_part(a) ==
        IF a.p.ch = "."
        THEN exp_part(scan_digits(advance(a.p), Append(a.string, "."), 10), TRUE)
        ELSE exp_part(a, FALSE)
  IN  frac_part(scan_digits(p, str, 10))

\* Parser::number, lines 254..291: the stored form of a finite double
classify(p, number, is_float) ==
  IF is_float
  THEN IF fract_is_zero(number) /\ in_i64_f(number)
       THEN number_or_bad(p, from_i128(number))
       ELSE number_or_bad(p, from_f64(number))
  ELSE IF in_i64_f(number) THEN number_or_bad(p, from_i128(number))
       ELSE IF in_u64_f(number) THEN number_or_bad(p, from_u128(number))
       ELSE number_or_bad(p, from_f64(number))

\* Parser::number, lines 236..252: the lexeme evaluated, times the sign
evaluate(p, str, base, neg) ==
  LET hex(r) == IF r.ok THEN [ok |-> TRUE, f |-> Finite(neg, Normalize(DigitsOf(r.n), 0))]
                ELSE Err(error(p, "Bad hex number"))
      dec(r) == IF r.ok THEN [ok |-> TRUE, f |-> [r.f EXCEPT !.neg = neg]]
                ELSE Err(error(p, "Bad number"))
  IN  IF base = 16
      THEN hex(from_str_radix16(trim_start_matches(trim_start_matches(str, <<"0", "x">>),
                                                   <<"0", "X">>)))
      ELSE dec(parse_f64(str))

\* Parser::number
number(p) ==
  LET stored(lex, ev) ==
        IF ~ev.ok THEN ev
        ELSE IF ev.f.cls # "finite" THEN Err(error(lex.p, "Bad number"))
        ELSE classify(lex.p, ev.f, lex.is_float)
      valued(lex, base, neg) == stored(lex, evaluate(lex.p, lex.string, base, neg))
      hex_lexeme(h) == [p |-> h.p, string |-> h.string, is_float |-> FALSE]
      lexed(z, neg) ==
        IF ~z.ok THEN z
        ELSE valued(IF z.base = 16 THEN hex_lexeme(scan_digits(z.p, z.string, 16))
                    ELSE scan_decimal(z.p, z.string),
                    z.base, neg)
      infinity(w, neg) ==
        IF ~w.ok THEN w
        ELSE IF w.v = Str(<<"I", "n", "f", "i", "n", "i", "t", "y">>)
        THEN number_or_bad(w.p, from_f64(Infinite(neg)))
        ELSE Err(error(w.p, "Unexpected word for number"))
      nan(w) ==
        IF ~w.ok THEN w
        ELSE IF w.v = Str(<<"N", "a", "N">>)
        THEN number_or_bad(w.p, from_f64(NaN))
        ELSE Err(error(w.p, "expected word to be NaN"))
      signed(p0, neg) ==
        IF p0.ch = "I" THEN infinity(word(p0), neg)
        ELSE IF p0.ch = "N" THEN nan(word(p0))
        ELSE lexed(scan_zero(p0), neg)
  IN  signed(IF p.ch \in {"-", "+"} THEN advance(p) ELSE p, p.ch = "-")

---------------------------------------------------------------------------
(* Parser: arrays, objects, values *)

\* serde_json::Map: a sequence of [k, v] entries with distinct keys, in the
\* map's iteration order.  Map::get
map_get(o, key) ==
  IF \E i \in 1..Len(o) : o[i].k = key
  THEN (CHOOSE e \in {o[i] : i \in 1..Len(o)} : e.k = key).v
  ELSE NoValue

map_has(o, key) == \E i \in 1..Len(o) : o[i].k = key

\* Map::insert with insertion order kept: a new key goes last, a key already
\* present keeps its place and takes the new value
map_insert(o, key, value) ==
  IF map_has(o, key)
  THEN [i \in 1..Len(o) |-> IF o[i].k = key THEN [k |-> key, v |-> value] ELSE o[i]]
  ELSE Append(o, [k |-> key, v |-> value])

\* an insert that keeps the value of a key already present
insert_if_absent(obj, key, value) ==
  IF map_has(obj, key) THEN obj ELSE Append(obj, [k |-> key, v |-> value])

\* Parser::object line 542: obj.insert(key, value)
insert(obj, key, value) == map_insert(obj, key, value)

RECURSIVE value(_)
RECURSIVE array_loop(_, _, _)
RECURSIVE object_loop(_, _, _)

\* Parser::array, one iteration of the loop: p.ch is the first character of
\* an element, or a closing bracket
array_step(p, arr, had_comma) ==
  LET closed(rn, arr1) == Exit(IF rn.ok THEN Ok(rn.p, Arr(arr1)) ELSE rn)
      again(w2, arr1) == IF w2.ok THEN Again(w2.p, arr1) ELSE Exit(w2)
      separated(w, arr1) ==
        IF ~w.ok THEN Exit(w)
        ELSE IF w.p.ch # "," THEN closed(next(w.p, "]"), arr1)
        ELSE again(white(advance(w.p)), arr1)
      pushed(rv) == IF ~rv.ok THEN Exit(rv) ELSE separated(white(rv.p), Append(arr, rv.v))
  IN  CASE p.ch = "]" ->
             Exit(IF had_comma THEN Err(error(p, "Superfluous trailing comma"))
                  ELSE Ok(advance(p), Arr(arr)))
        [] p.ch = "," -> Exit(Err(error(p, "Missing array element")))
        [] p.ch = None -> Exit(Err(error(p, "Bad array")))
        [] OTHER -> pushed(value(p))

\* Parser::array, the loop
array_loop(p, arr, had_comma) ==
  LET go(s) == IF s.again THEN array_loop(s.p, s.st, TRUE) ELSE s.out
  IN  go(array_step(p, arr, had_comma))

\* an array whose comma flag starts set
array_flagged(p) ==
  LET opened(w) == IF w.ok THEN array_loop(w.p, <<>>, TRUE) ELSE w
  IN  IF p.ch = "[" THEN opened(white(advance(p))) ELSE Err(error(p, "Bad array"))

\* Parser::array
array(p) ==
  LET opened(w) == IF w.ok THEN array_loop(w.p, <<>>, FALSE) ELSE w
  IN  IF p.ch = "[" THEN opened(white(advance(p))) ELSE Err(error(p, "Bad array"))

\* Parser::object, one iteration of the loop
object_step(p, obj, had_comma) ==
  LET closed(rn, obj1) == Exit(IF rn.ok THEN Ok(rn.p, Obj(obj1)) ELSE rn)
      again(w2, obj1) == IF w2.ok THEN Again(w2.p, obj1) ELSE Exit(w2)
      separated(w, obj1) ==
        IF ~w.ok THEN Exit(w)
        ELSE IF w.p.ch # "," THEN closed(next(w.p, "}"), obj1)
        ELSE again(white(advance(w.p)), obj1)
      inserted(key, rv) ==
        IF ~rv.ok THEN Exit(rv) ELSE separated(white(rv.p), insert(obj, key, rv.v))
      after_colon(key, colon) ==
        IF ~colon.ok THEN Exit(colon) ELSE inserted(key, value(colon.p))
      after_key(key, w0) == IF ~w0.ok THEN Exit(w0) ELSE after_colon(key, next(w0.p, ":"))
      keyed(key_val) ==
        IF ~key_val.ok THEN Exit(key_val) ELSE after_key(key_val.v.s, white(key_val.p))
  IN  CASE p.ch = "}" ->
             Exit(IF had_comma THEN Err(error(p, "Superfluous trailing comma"))
                  ELSE Ok(advance(p), Obj(obj)))
        [] p.ch \in {"\"", "'"} -> keyed(string(p))
        [] p.ch = "," -> Exit(Err(error(p, "Expected key")))
        [] p.ch = None -> Exit(Err(error(p, "Bad object")))
        [] OTHER -> Exit(Err(error(p, "Unquoted key")))

\* Parser::object, the loop
object_loop(p, obj, had_comma) ==
  LET go(s) == IF s.again THEN object_loop(s.p, s.st, TRUE) ELSE s.out
  IN  go(object_step(p, obj, had_comma))

\* Parser::object
object(p) ==
  LET opened(w) == IF w.ok THEN object_loop(w.p, <<>>, FALSE) ELSE w
  IN  IF p.ch = "{" THEN opened(white(advance(p))) ELSE Err(error(p, "Bad object"))

\* Parser::value
value(p0) ==
  LET at(w) ==
        IF ~w.ok THEN w
        ELSE CASE w.p.ch = "{" -> object(w.p)
               [] w.p.ch = "[" -> array(w.p)
               [] w.p.ch \in {"\"", "'"} -> string(w.p)
               [] w.p.ch \in {"-", "+", "."} -> number(w.p)
               [] w.p.ch # None /\ is_digit10(w.p.ch) -> number(w.p)
               [] OTHER -> word(w.p)
  IN  at(white(p0))

\* a parse that stops after the value
parse_run_value_only(txt) == value(new(txt))

\* json5::parse, with the parser's final cursor kept beside the outcome
parse_run(txt) ==
  LET ended(w, v) ==
        IF ~w.ok THEN w
        ELSE IF w.p.ch # None THEN Err(error(w.p, "Syntax error"))
        ELSE Ok(w.p, v)
      valued(rv) == IF ~rv.ok THEN rv ELSE ended(white(rv.p), rv.v)
  IN  valued(value(new(txt)))

\* json5::parse
parse(txt) ==
  LET outcome(r) == IF r.ok THEN [ok |-> TRUE, v |-> r.v] ELSE r
  IN  outcome(parse_run(txt))

---------------------------------------------------------------------------
(* Pattern configuration (src/util/patterns.rs).                           *)
(*                                                                         *)
(* A pattern is a literal with optional ^ and $ anchors:                   *)
(* [start, end, lit], lit a sequence of characters.                        *)
(***************************************************************************)

\* Regex::is_match of one pattern: a search, anchored only where the
\* pattern anchors itself
pattern_matches(pat, path) ==
  LET n == Len(pat.lit)
      at(i) == i + n - 1 <= Len(path) /\ SubSeq(path, i, i + n - 1) = pat.lit
  IN  CASE pat.start /\ pat.end -> path = pat.lit
        [] pat.start -> at(1)
        [] pat.end -> Len(path) >= n /\ at(Len(path) - n + 1)
        [] OTHER -> \E i \in 1..(Len(path) + 1) : at(i)

\* RegexSet::is_match: some pattern of the set matches
is_match(set, path) == \E i \in 1..Len(set) : pattern_matches(set[i], path)

\* PatternSet::new and PatternSet::get_regex: no RegexSet for an empty list
get_regex(string_patterns) ==
  IF string_patterns = <<>> THEN [some |-> FALSE, set |-> <<>>]
  ELSE [some |-> TRUE, set |-> string_patterns]

\* PatternConfig::contains_extension
contains_extension(cfg, ext) == ext \in DOMAIN cfg

---------------------------------------------------------------------------
(* Patch generator (src/util/json_patch.rs) *)

K_op == <<"o", "p">>
K_path == <<"p", "a", "t", "h">>
K_value == <<"v", "a", "l", "u", "e">>
S_replace == <<"r", "e", "p", "l", "a", "c", "e">>
S_add == <<"a", "d", "d">>
S_test == <<"t", "e", "s", "t">>

\* the marker without its space
marked_short(string_value) == <<"(", "T", ")">> \o string_value

\* format!("(T) {}", string_value)
marked(string_value) == <<"(", "T", ")", " ">> \o string_value

\* the decimal text of an index, as format!("{}", index) writes it
to_decimal(index) ==
  LET ds == DigitsOf(index)
  IN  [i \in 1..Len(ds) |-> <<"0", "1", "2", "3", "4", "5", "6", "7", "8", "9">>[ds[i] + 1]]

\* json!({"op": "replace", "path": .., "value": ..})
replace_op(path, val) ==
  Obj(<<[k |-> K_op, v |-> Str(S_replace)], [k |-> K_path, v |-> Str(path)],
        [k |-> K_value, v |-> val]>>)

\* a test operation that carries the path as its value too
test_op_valued(path) ==
  Obj(<<[k |-> K_op, v |-> Str(S_test)], [k |-> K_path, v |-> Str(path)],
        [k |-> K_value, v |-> Str(path)]>>)

\* json!({"op": "test", "path": ..})
test_op(path) == Obj(<<[k |-> K_op, v |-> Str(S_test)], [k |-> K_path, v |-> Str(path)]>>)

\* the array cloned with no element marked
new_array_cloned(array_value) == array_value

\* the array of a matched path: direct strings marked, the rest cloned
new_array(array_value) ==
  [i \in 1..Len(array_value) |->
     IF array_value[i].t = "str" THEN Str(marked(array_value[i].s)) ELSE array_value[i]]

\* if let Some(set) = regex_set { if set.is_match(path) .. }
matched(regex_set, path) == regex_set.some /\ is_match(regex_set.set, path)

\* gen_patch_from_json, lines 66..70 and 76..80: the pointer of a child
next_pointer(json_pointer, seg) ==
  IF json_pointer = <<>> THEN <<"/">> \o seg ELSE json_pointer \o <<"/">> \o seg

RECURSIVE gen_patch_from_json(_, _, _, _)
RECURSIVE gen_json_elements(_, _, _, _, _)
RECURSIVE gen_json_fields(_, _, _, _, _)

\* gen_patch_from_json: patch_operations after the call
gen_patch_from_json(jv, json_pointer, regex_set, patch_operations) ==
  CASE jv.t = "str" ->
         IF matched(regex_set, json_pointer)
         THEN Append(patch_operations, replace_op(json_pointer, Str(marked(jv.s))))
         ELSE patch_operations
    [] jv.t = "arr" ->
         IF matched(regex_set, json_pointer)
         THEN Append(patch_operations, replace_op(json_pointer, Arr(new_array(jv.a))))
         ELSE gen_json_elements(jv.a, 1, json_pointer, regex_set, patch_operations)
    [] jv.t = "obj" -> gen_json_fields(jv.o, 1, json_pointer, regex_set, patch_operations)
    [] OTHER -> patch_operations

\* gen_patch_from_json, the loop over the array elements from index i on
gen_json_elements(arr, i, json_pointer, regex_set, patch_operations) ==
  IF i > Len(arr) THEN patch_operations
  ELSE gen_json_elements(arr, i + 1, json_pointer, regex_set,
         gen_patch_from_json(arr[i], next_pointer(json_pointer, to_decimal(i - 1)),
                             regex_set, patch_operations))

\* gen_patch_from_json, the loop over the object fields from entry i on
gen_json_fields(obj, i, json_pointer, regex_set, patch_operations) ==
  IF i > Len(obj) THEN patch_operations
  ELSE gen_json_fields(obj, i + 1, json_pointer, regex_set,
         gen_patch_from_json(obj[i].v, next_pointer(json_pointer, obj[i].k),
                             regex_set, patch_operations))

\* an operation check that knows replace only
is_operation_replace(obj) ==
  /\ map_has(obj, K_op) /\ map_has(obj, K_path) /\ map_has(obj, K_value)
  /\ map_get(obj, K_op).t = "str" /\ map_get(obj, K_path).t = "str"
  /\ map_get(obj, K_op).s = S_replace

\* gen_patch_from_json_patch, lines 136..145: the object is a replace or add
\* operation with a string path and a value
is_operation(obj) ==
  /\ map_has(obj, K_op) /\ map_has(obj, K_path) /\ map_has(obj, K_value)
  /\ map_get(obj, K_op).t = "str" /\ map_get(obj, K_path).t = "str"
  /\ map_get(obj, K_op).s \in {S_replace, S_add}

\* a field path that always extends the current path
next_path_appended(operation_path, k, is_patch_value) == operation_path \o <<"/">> \o k

\* gen_patch_from_json_patch, lines 150..154: the path of a field
next_path(operation_path, k, is_patch_value) ==
  IF is_patch_value THEN operation_path \o <<"/">> \o k ELSE k

RECURSIVE gen_patch_from_json_patch(_, _, _, _, _)
RECURSIVE gen_patch_elements(_, _, _, _, _, _)
RECURSIVE gen_patch_fields(_, _, _, _, _, _)

\* gen_patch_from_json_patch: patch_operations after the call
gen_patch_from_json_patch(jv, operation_path, regex_set, patch_operations, is_patch_value) ==
  CASE jv.t = "str" ->
         IF matched(regex_set, operation_path)
         THEN Append(patch_operations, replace_op(operation_path, Str(marked(jv.s))))
         ELSE patch_operations
    [] jv.t = "arr" ->
         IF matched(regex_set, operation_path)
         THEN Append(patch_operations, replace_op(operation_path, Arr(new_array(jv.a))))
         ELSE gen_patch_elements(jv.a, 1, operation_path, regex_set, patch_operations,
                                 is_patch_value)
    [] jv.t = "obj" ->
         IF ~is_patch_value /\ is_operation(jv.o)
         THEN gen_patch_from_json_patch(map_get(jv.o, K_value), map_get(jv.o, K_path).s,
                                        regex_set, patch_operations, TRUE)
         ELSE gen_patch_fields(jv.o, 1, operation_path, regex_set, patch_operations,
                               is_patch_value)
    [] OTHER -> patch_operations

\* gen_patch_from_json_patch, the loop over the array elements
gen_patch_elements(arr, i, operation_path, regex_set, patch_operations, is_patch_value) ==
  IF i > Len(arr) THEN patch_operations
  ELSE gen_patch_elements(arr, i + 1, operation_path, regex_set,
         gen_patch_from_json_patch(arr[i], operation_path \o <<"/">> \o to_decimal(i - 1),
                                   regex_set, patch_operations, is_patch_value),
         is_patch_value)

\* gen_patch_from_json_patch, the loop over the object fields
gen_patch_fields(obj, i, operation_path, regex_set, patch_operations, is_patch_value) ==
  IF i > Len(obj) THEN patch_operations
  ELSE gen_patch_fields(obj, i + 1, operation_path, regex_set,
         gen_patch_from_json_patch(obj[i].v, next_path(operation_path, obj[i].k, is_patch_value),
                                   regex_set, patch_operations, is_patch_value),
         is_patch_value)

CommonPatch(ops) == [kind |-> "CommonPatch", ops |-> ops]
BatchesPatch(batches) == [kind |-> "BatchesPatch", ops |-> batches]

\* generate_test_operation
generate_test_operation(patch_operations) ==
  BatchesPatch([i \in 1..Len(patch_operations) |->
                  <<test_op(map_get(patch_operations[i].o, K_path).s), patch_operations[i]>>])

\* process_json
process_json(jv, regex_set, gen_test_operation) ==
  LET patch_operations == gen_patch_from_json(jv, <<>>, regex_set, <<>>)
  IN  IF gen_test_operation THEN generate_test_operation(patch_operations)
      ELSE CommonPatch(patch_operations)

\* process_json_patch
process_json_patch(jv, regex_set, gen_test_operation) ==
  LET patch_operations == gen_patch_from_json_patch(jv, <<>>, regex_set, <<>>, FALSE)
  IN  IF gen_test_operation THEN generate_test_operation(patch_operations)
      ELSE CommonPatch(patch_operations)

\* generate_patch
generate_patch(is_patch, jv, file_extension, pattern_config, gen_test_operation) ==
  IF contains_extension(pattern_config, file_extension)
  THEN IF is_patch
       THEN process_json_patch(jv, get_regex(pattern_config[file_extension]), gen_test_operation)
       ELSE process_json(jv, get_regex(pattern_config[file_extension]), gen_test_operation)
  ELSE CommonPatch(<<>>)

\* a PatchData that never counts as empty
is_empty_never(patch) == FALSE

\* PatchData::is_empty
is_empty(patch) ==
  IF patch.kind = "CommonPatch" THEN patch.ops = <<>>
  ELSE \A i \in 1..Len(patch.ops) : patch.ops[i] = <<>>

---------------------------------------------------------------------------
(* Inputs of the patch generator *)

One == PosInt(Normalize(<<1>>, 0))

\* the most nodes of a drawn value tree
MaxNodes == 4

Leaves == {Str(<<"x">>), One}
Keys == {<<"a">>, <<"b">>}

RECURSIVE ValuesOfSize(_)
RECURSIVE Forests(_)
RECURSIVE KeyedForests(_, _)

\* the values with exactly n nodes
ValuesOfSize(n) ==
  IF n < 1 THEN {}
  ELSE (IF n = 1 THEN Leaves ELSE {})
       \cup {Arr(f) : f \in Forests(n - 1)}
       \cup {Obj(f) : f \in KeyedForests(n - 1, Keys)}

\* the sequences of values with n nodes in all
Forests(n) ==
  IF n = 0 THEN {<<>>}
  ELSE UNION {{<<v>> \o f : v \in ValuesOfSize(k), f \in Forests(n - k)} : k \in 1..n}

\* the entry sequences with distinct keys and n nodes in all
KeyedForests(n, keys) ==
  IF n = 0 THEN {<<>>}
  ELSE UNION {{<<[k |-> c[2], v |-> v]>> \o f :
                 v \in ValuesOfSize(c[1]), f \in KeyedForests(n - c[1], keys \ {c[2]})} :
              c \in (1..n) \X keys}

ValuesUpTo(n) == UNION {ValuesOfSize(k) : k \in 1..n}

Pat(start, lit, end) == [start |-> start, end |-> end, lit |-> lit]

\* the pattern lists of the drawn configurations: ^/a$, /a, ^/t$, /0$, a, the
\* empty pattern, and lists of none and of two
PatternLists ==
  { <<>>,
    <<Pat(TRUE, <<"/", "a">>, TRUE)>>,
    <<Pat(FALSE, <<"/", "a">>, FALSE)>>,
    <<Pat(TRUE, <<"/", "t">>, TRUE)>>,
    <<Pat(FALSE, <<"/", "0">>, TRUE)>>,
    <<Pat(FALSE, <<"a">>, FALSE)>>,
    <<Pat(FALSE, <<>>, FALSE)>>,
    <<Pat(TRUE, <<"/", "t">>, TRUE), Pat(TRUE, <<"/", "b">>, FALSE)>> }

\* an object with the fields of an operation; a field whose value is NoValue
\* is left out
OpObj(op, path, val) ==
  SelectSeq(<<[k |-> K_op, v |-> op], [k |-> K_path, v |-> path], [k |-> K_value, v |-> val]>>,
            LAMBDA e : e.v # NoValue)

P_t == <<"/", "t">>
P_u == <<"/", "u">>

\* values that hold an object of the operation shape
NestedOps ==
  { Obj(OpObj(Str(S_replace), Str(P_u), Str(<<"x">>))),
    Arr(<<Obj(OpObj(Str(S_add), Str(P_u), Str(<<"x">>)))>>),
    Obj(<<[k |-> <<"a">>, v |-> Obj(OpObj(Str(S_replace), Str(P_u), Arr(<<Str(<<"x">>)>>)))]>>) }

\* objects with every mix of op, path and value fields
OpObjs ==
  { Obj(OpObj(op, path, val)) :
      op \in {Str(S_replace), Str(S_add), Str(S_test), One, NoValue},
      path \in {Str(P_t), Str(<<>>), One, NoValue},
      val \in ValuesUpTo(MaxNodes - 2) \cup NestedOps \cup {NoValue} }

\* replace and add operations at /t
GoodOps ==
  { Obj(OpObj(Str(op), Str(P_t), val)) :
      op \in {S_replace, S_add}, val \in ValuesUpTo(MaxNodes - 3) \cup NestedOps }

\* the documents drawn in existing-patch mode
PatchDocs ==
  OpObjs
  \cup {Arr(<<o>>) : o \in OpObjs}
  \cup {Arr(<<o1, o2>>) : o1 \in GoodOps, o2 \in GoodOps}
  \cup {Arr(<<Arr(<<o>>)>>) : o \in GoodOps}
  \cup {Obj(<<[k |-> <<"a">>, v |-> o]>>) : o \in OpObjs}
  \cup ValuesUpTo(MaxNodes - 1)

\* the extension the drawn configuration knows, and one it does not
Ext == "json"
OtherExt == "png"

---------------------------------------------------------------------------
(* Actions.  pc follows cmd/generate.rs run() for one input file: the text *)
(* is parsed ("ready" to "parsed" or "failed"), then generate_patch is     *)
(* called; the model calls it without the test guard ("flat") and then     *)
(* with it ("done") on the same inputs.                                    *)

\* no command runs: one input file is followed
NoCommand ==
  /\ args = NoValue /\ dir_whitelist = {} /\ entries = <<>>
  /\ input_files_map = <<>> /\ output_files_map = <<>> /\ disk = <<>>

\* generate.rs line 85: json5::parse(&json_str)?
Parse ==
  /\ pc = "ready"
  /\ result' = parse(text)
  /\ json_value' = IF result'.ok THEN result'.v ELSE NoValue
  /\ pc' = IF result'.ok THEN "parsed" ELSE "failed"
  /\ UNCHANGED <<source, input, text, config, flat, batched>>
  /\ UNCHANGED cmd_vars

\* generate.rs line 88 with gen_test false
GenerateFlat ==
  /\ pc = "parsed"
  /\ flat' = generate_patch(input.is_patch, json_value, input.file_extension, config, FALSE)
  /\ pc' = "flat"
  /\ UNCHANGED <<source, input, text, result, json_value, config, batched>>
  /\ UNCHANGED cmd_vars

\* generate.rs line 88 with gen_test true
GenerateBatched ==
  /\ pc = "flat"
  /\ batched' = generate_patch(input.is_patch, json_value, input.file_extension, config, TRUE)
  /\ pc' = "done"
  /\ UNCHANGED <<source, input, text, result, json_value, config, flat>>
  /\ UNCHANGED cmd_vars

\* The generator alone: the value is drawn as if already parsed.
InitGen ==
  /\ pc = "parsed"
  /\ source = <<>> /\ text = <<>> /\ result = NoValue
  /\ batched = NoValue /\ flat = NoValue
  /\ \E pl \in PatternLists : config = (Ext :> pl)
  /\ \/ /\ json_value \in ValuesUpTo(MaxNodes)
        /\ input = [is_patch |-> FALSE, file_extension |-> Ext]
     \/ /\ json_value \in ValuesUpTo(MaxNodes - 2)
        /\ input \in {[is_patch |-> b, file_extension |-> OtherExt] : b \in BOOLEAN}
     \/ /\ json_value \in PatchDocs
        /\ input = [is_patch |-> TRUE, file_extension |-> Ext]
  /\ NoCommand

NextGen == GenerateFlat \/ GenerateBatched

SpecGen == InitGen /\ [][NextGen]_vars

---------------------------------------------------------------------------
(* The generator's contract, stated on the positions of the input tree.    *)
(* A position is the sequence of child indices leading to a node.          *)

Front(q) == SubSeq(q, 1, Len(q) - 1)
Last(q) == q[Len(q)]

Children(v) ==
  IF v.t = "arr" THEN v.a
  ELSE IF v.t = "obj" THEN [i \in 1..Len(v.o) |-> v.o[i].v]
  ELSE <<>>

RECURSIVE NodeAt(_, _)
NodeAt(v, q) == IF q = <<>> THEN v ELSE NodeAt(Children(v)[Head(q)], Tail(q))

\* the positions of a tree, parents before children, siblings left to right
RECURSIVE PreOrder(_)
RECURSIVE PreOrderFrom(_, _)
PreOrder(v) == <<<<>>>> \o PreOrderFrom(v, 1)
PreOrderFrom(v, i) ==
  IF i > Len(Children(v)) THEN <<>>
  ELSE LET sub == PreOrder(Children(v)[i])
       IN  [j \in 1..Len(sub) |-> <<i>> \o sub[j]] \o PreOrderFrom(v, i + 1)

\* the path segment of child i of a node: the 0-based index, or the key
Segment(n, i) == IF n.t = "arr" THEN to_decimal(i - 1) ELSE n.o[i].k

Field(n, key) == {i \in 1..Len(n.o) : n.o[i].k = key}

\* an object with a string op equal to replace or add, a string path and a
\* value
OpShaped(n) ==
  /\ n.t = "obj"
  /\ \E i \in Field(n, K_op) : n.o[i].v \in {Str(S_replace), Str(S_add)}
  /\ \E i \in Field(n, K_path) : n.o[i].v.t = "str"
  /\ Field(n, K_value) # {}

Matches(path) ==
  \E i \in 1..Len(config[Ext]) : pattern_matches(config[Ext][i], path)

Unvisited == [vis |-> FALSE, path |-> <<>>, inval |-> FALSE]

\* Mode A: whether the walk reaches the node at q, and with which pointer
RECURSIVE FreshCtx(_, _)
FreshCtx(v, q) ==
  IF q = <<>> THEN [vis |-> TRUE, path |-> <<>>, inval |-> FALSE]
  ELSE LET c == FreshCtx(v, Front(q))
           n == NodeAt(v, Front(q))
       IN  IF ~c.vis \/ (n.t = "arr" /\ Matches(c.path)) THEN Unvisited
           ELSE [vis |-> TRUE, path |-> c.path \o <<"/">> \o Segment(n, Last(q)),
                 inval |-> FALSE]

\* Mode B: the same, with inval telling whether the node lies in the value
\* of an operation
RECURSIVE PatchCtx(_, _)
PatchCtx(v, q) ==
  IF q = <<>> THEN [vis |-> TRUE, path |-> <<>>, inval |-> FALSE]
  ELSE LET c == PatchCtx(v, Front(q))
           n == NodeAt(v, Front(q))
           i == Last(q)
       IN  IF ~c.vis THEN Unvisited
           ELSE IF n.t = "arr"
           THEN IF Matches(c.path) THEN Unvisited
                ELSE [vis |-> TRUE, path |-> c.path \o <<"/">> \o Segment(n, i),
                      inval |-> c.inval]
           ELSE IF ~c.inval /\ OpShaped(n)
           THEN IF n.o[i].k = K_value
                THEN [vis |-> TRUE, path |-> NodeAt(v, Front(q) \o <<CHOOSE j \in Field(n, K_path) : TRUE>>).s,
                      inval |-> TRUE]
                ELSE Unvisited
           ELSE [vis |-> TRUE,
                 path |-> IF c.inval THEN c.path \o <<"/">> \o Segment(n, i) ELSE Segment(n, i),
                 inval |-> c.inval]

Ctx(v, q, is_patch) == IF is_patch THEN PatchCtx(v, q) ELSE FreshCtx(v, q)

TMarker == <<"(", "T", ")", " ">>

\* the operation the contract asks for a matched string or array
Emitted(path, n) ==
  Obj(<<[k |-> K_op, v |-> Str(S_replace)],
        [k |-> K_path, v |-> Str(path)],
        [k |-> K_value,
         v |-> IF n.t = "str" THEN Str(TMarker \o n.s)
               ELSE Arr([i \in 1..Len(n.a) |->
                           IF n.a[i].t = "str" THEN Str(TMarker \o n.a[i].s) ELSE n.a[i]])]>>)

\* the operations the contract asks for the nodes of the kinds ts, in order
Expected(v, ts, is_patch) ==
  LET hit(q) == /\ NodeAt(v, q).t \in ts
                /\ Ctx(v, q, is_patch).vis
                /\ Matches(Ctx(v, q, is_patch).path)
      qs == SelectSeq(PreOrder(v), hit)
  IN  [i \in 1..Len(qs) |-> Emitted(Ctx(v, qs[i], is_patch).path, NodeAt(v, qs[i]))]

\* the operations of a list whose value is of one of the kinds ts
OpsOfKind(ops, ts) == SelectSeq(ops, LAMBDA o : o.o[3].v.t \in ts)

Known == input.file_extension \in DOMAIN config

\* C1: in fresh-tree mode the replace operations with a string value are
\* exactly, and in walk order, those of the matched strings that lie beneath
\* no matched array, each at its pointer with the string marked "(T) "; no
\* operation has a number, boolean, null or object as its value.
C1_FreshStrings ==
  (pc \in {"flat", "done"} /\ ~input.is_patch /\ Known) =>
    /\ flat.kind = "CommonPatch"
    /\ OpsOfKind(flat.ops, {"str"}) = Expected(json_value, {"str"}, FALSE)
    /\ \A i \in 1..Len(flat.ops) : flat.ops[i].o[3].v.t \in {"str", "arr"}

\* the spec's example shape: two string fields, one of them matched
C1_Witness ==
  /\ pc = "done" /\ ~input.is_patch /\ Known
  /\ json_value = Obj(<<[k |-> <<"a">>, v |-> Str(<<"x">>)], [k |-> <<"b">>, v |-> Str(<<"x">>)]>>)
  /\ config[Ext] = <<Pat(TRUE, <<"/", "a">>, TRUE)>>
  /\ flat.ops = <<Emitted(<<"/", "a">>, Str(<<"x">>))>>

\* C2: in both modes the operations with an array value are exactly, and in
\* walk order, those of the matched arrays the walk reaches: one replace at
\* the array's path, direct strings marked, other elements unchanged; the walk
\* reaches nothing beneath a matched array and reaches the elements of an
\* unmatched one at path/<index>.
C2_ArrayAsUnit ==
  (pc \in {"flat", "done"} /\ Known) =>
    OpsOfKind(flat.ops, {"arr"}) = Expected(json_value, {"arr"}, input.is_patch)

\* a matched array with a string and a number, whose string's own path matches
C2_Witness ==
  /\ pc = "done" /\ ~input.is_patch /\ Known
  /\ json_value = Obj(<<[k |-> <<"a">>, v |-> Arr(<<Str(<<"x">>), One>>)]>>)
  /\ config[Ext] = <<Pat(FALSE, <<"/", "a">>, FALSE)>>
  /\ Matches(<<"/", "a", "/", "0">>)
  /\ flat.ops = <<Emitted(<<"/", "a">>, Arr(<<Str(<<"x">>), One>>))>>

\* C3: in existing-patch mode the operations are exactly those of the strings
\* and arrays reached by walking the value of every operation-shaped object
\* met outside an operation value, rooted at that operation's path, with
\* operation-shaped objects inside a value walked as plain objects; every
\* operation emitted is a replace.
C3_ExistingPatch ==
  (pc \in {"flat", "done"} /\ input.is_patch /\ Known) =>
    /\ flat.ops = Expected(json_value, {"str", "arr"}, TRUE)
    /\ \A i \in 1..Len(flat.ops) : flat.ops[i].o[1] = [k |-> K_op, v |-> Str(S_replace)]

\* an add operation whose value holds an operation-shaped object
C3_Witness ==
  /\ pc = "done" /\ input.is_patch /\ Known
  /\ json_value = Arr(<<Obj(OpObj(Str(S_add), Str(P_t),
                     Obj(<<[k |-> <<"a">>,
                           v |-> Obj(OpObj(Str(S_replace), Str(P_u), Arr(<<Str(<<"x">>)>>)))]>>)))>>)
  /\ config[Ext] = <<Pat(FALSE, <<"/", "a">>, FALSE)>>
  /\ Len(flat.ops) = 3
  /\ flat.ops[3] = Emitted(P_t \o <<"/", "a", "/">> \o K_value, Arr(<<Str(<<"x">>)>>))

\* C4: the guarded result has one batch per operation of the unguarded
\* result, in the same order: a test operation at the operation's path, with
\* no value, then the operation itself.
C4_TestGuard ==
  pc = "done" =>
    /\ Known => batched.kind = "BatchesPatch"
    /\ Len(batched.ops) = Len(flat.ops)
    /\ \A i \in 1..Len(flat.ops) :
         batched.ops[i] = <<Obj(<<[k |-> K_op, v |-> Str(S_test)], flat.ops[i].o[2]>>),
                            flat.ops[i]>>

C4_Witness == pc = "done" /\ Known /\ Len(flat.ops) >= 2 /\ Len(batched.ops) >= 2

---------------------------------------------------------------------------
(* Texts drawn as token sequences.  A token is a sequence of characters;   *)
(* the text is the concatenation of the tokens.                            *)

LB == <<"[">>
RB == <<"]">>
LC == <<"{">>
RC == <<"}">>
Comma == <<",">>
Colon == <<":">>
N1 == <<"1">>
N2 == <<"2">>
SA == <<"\"", "a", "\"">>
SB == <<"\"", "b", "\"">>
KA == SA \o Colon
KB == SB \o Colon
Sp == <<" ">>
Lf == <<"\n">>

NumToks == {N1, N2}
StrToks == {SA, SB}
KeyColonToks == {KA, KB}

\* whitespace and terminated comments
Fillers ==
  { Sp, Lf, <<"\t">>, <<"\r">>, <<VT>>, <<FF>>, <<NBSP>>, <<BOM>>,
    <<"/", "*", "*", "/">>,
    <<"/", "*", " ", "c", " ", "*", "/">>,
    <<"/", "*", "]", "*", "*", "/">>,
    <<"/", "/", "c", "\n">>,
    <<"/", "/", " ", "t", "r", "a", "i", "l", "i", "n", "g", "\n">>,
    <<"/", "/", ",", "\r">> }

\* a line comment that runs to the end of the text
OpenLineComment == <<"/", "/", "c">>

RECURSIVE Flatten(_)
Flatten(toks) == IF toks = <<>> THEN <<>> ELSE Head(toks) \o Flatten(Tail(toks))

\* the sequences over S of length up to n
SeqsUpTo(S, n) == UNION {[1..k -> S] : k \in 0..n}

Class(t) ==
  CASE t \in NumToks -> "num"
    [] t \in StrToks -> "str"
    [] t \in KeyColonToks -> "key:"
    [] t \in Fillers \cup {OpenLineComment} -> "fill"
    [] OTHER -> t[1]

\* the token classes of a text without its whitespace and comments; number
\* tokens that touch are one number
RECURSIVE Classes(_, _)
Classes(toks, i) ==
  IF i > Len(toks) THEN <<>>
  ELSE LET c == Class(toks[i])
       IN  IF c = "fill" \/ (c = "num" /\ i > 1 /\ Class(toks[i - 1]) = "num")
           THEN Classes(toks, i + 1)
           ELSE <<c>> \o Classes(toks, i + 1)

\* The grammar of spec section 4.1 on token classes: the index after the
\* value, the element list or the member list that starts at ts[i], or 0
\* when there is none.
RECURSIVE ValueEnd(_, _)
RECURSIVE ElementsEnd(_, _)
RECURSIVE MembersEnd(_, _)
ValueEnd(ts, i) ==
  IF i > Len(ts) THEN 0
  ELSE CASE ts[i] \in {"num", "str"} -> i + 1
         [] ts[i] = "[" ->
              IF i + 1 <= Len(ts) /\ ts[i + 1] = "]" THEN i + 2 ELSE ElementsEnd(ts, i + 1)
         [] ts[i] = "{" ->
              IF i + 1 <= Len(ts) /\ ts[i + 1] = "}" THEN i + 2 ELSE MembersEnd(ts, i + 1)
         [] OTHER -> 0

ElementsEnd(ts, i) ==
  LET j == ValueEnd(ts, i)
  IN  IF j = 0 \/ j > Len(ts) THEN 0
      ELSE IF ts[j] = "," THEN ElementsEnd(ts, j + 1)
      ELSE IF ts[j] = "]" THEN j + 1
      ELSE 0

MembersEnd(ts, i) ==
  LET v == IF i > Len(ts) THEN 0
           ELSE IF ts[i] = "key:" THEN i + 1
           ELSE IF ts[i] = "str" /\ i + 1 <= Len(ts) /\ ts[i + 1] = ":" THEN i + 2
           ELSE 0
      j == IF v = 0 THEN 0 ELSE ValueEnd(ts, v)
  IN  IF j = 0 \/ j > Len(ts) THEN 0
      ELSE IF ts[j] = "," THEN MembersEnd(ts, j + 1)
      ELSE IF ts[j] = "}" THEN j + 1
      ELSE 0

\* exactly one well-formed value
WellFormed(ts) == ValueEnd(ts, 1) = Len(ts) + 1

\* the most tokens of a drawn text
MaxTokens == 5

Alphabet == {LB, RB, LC, RC, Comma, N1, KA, Sp}

TextExamples ==
  { <<LB, N1, Comma, N2, Comma, RB>>,
    <<LC, KA, N1, Comma, RC>>,
    <<LB, N1, Comma, N2, RB>>,
    <<LB, N1, Comma, <<"/", "*", "*", "/">>, Lf, RB>>,
    <<LC, KA, N1, Sp, Comma, <<"/", "/", "c", "\n">>, RC, Sp>>,
    <<LB, LB, N1, Comma, RB, Comma, N2, RB>>,
    <<LC, KA, LB, Comma, RB, RC>>,
    <<Sp, <<"/", "*", " ", "c", " ", "*", "/">>, LC, KA, N1, RC, <<"/", "/", "c", "\n">>, N1>>,
    <<LC, SA, Sp, Colon, SB, Comma, KB, LB, RB, RC, OpenLineComment>> }

NoInput == [is_patch |-> FALSE, file_extension |-> Ext]

InitText ==
  /\ pc = "ready"
  /\ source \in SeqsUpTo(Alphabet, MaxTokens) \cup TextExamples
  /\ text = Flatten(source)
  /\ input = NoInput /\ config = (Ext :> <<>>)
  /\ result = NoValue /\ json_value = NoValue /\ flat = NoValue /\ batched = NoValue
  /\ NoCommand

SpecText == InitText /\ [][Parse]_vars

Failed(msg) == pc = "failed" /\ ~result.ok /\ result.err.message = msg

Remove(ts, i) == SubSeq(ts, 1, i - 1) \o SubSeq(ts, i + 1, Len(ts))

\* the commas that stand directly before the closing bracket of their array
\* or object in a text that is well-formed without them
ClosingCommas(ts) ==
  {i \in 2..(Len(ts) - 1) : ts[i] = "," /\ ts[i + 1] \in {"]", "}"} /\ WellFormed(Remove(ts, i))}

Parses(toks) == source = toks => pc = "parsed"

PlainExamples ==
  /\ Parses(<<LB, RB>>) /\ Parses(<<LC, RC>>)
  /\ Parses(<<LB, N1, Comma, N2, RB>>) /\ Parses(<<LC, KA, N1, RC>>)

\* C6 as stated: every comma directly before the closing bracket gives
\* "Superfluous trailing comma".
C6_AnyClosingComma ==
  pc # "ready" =>
    /\ ClosingCommas(Classes(source, 1)) # {} => Failed("Superfluous trailing comma")
    /\ PlainExamples

\* C6: a comma that follows an element or a member and stands directly before
\* the closing bracket gives "Superfluous trailing comma"; a comma directly
\* between the brackets gives "Missing array element" in an array and
\* "Expected key" in an object; [], {}, [1,2] and {"a":1} parse.
C6_TrailingComma ==
  pc # "ready" =>
    LET ts == Classes(source, 1)
    IN  /\ \A i \in ClosingCommas(ts) :
             CASE ts[i - 1] = "[" -> Failed("Missing array element")
               [] ts[i - 1] = "{" -> Failed("Expected key")
               [] OTHER -> Failed("Superfluous trailing comma")
        /\ PlainExamples

\* {"a":1,} with whitespace and a comment between the comma and the brace
C6_Witness ==
  /\ Failed("Superfluous trailing comma")
  /\ source = <<LC, KA, N1, Sp, Comma, <<"/", "/", "c", "\n">>, RC, Sp>>

---------------------------------------------------------------------------
(* The whole run on an object text: the text is drawn as a member list in  *)
(* which keys may repeat, parsed, and handed to the generator.             *)

N3 == <<"3">>
Three == PosInt(Normalize(<<3>>, 0))
Two == PosInt(Normalize(<<2>>, 0))

Atom(tok, val) == [kind |-> "atom", tok |-> tok, val |-> val]
ObjectTerm(members) == [kind |-> "object", members |-> members]
Member(k, v) == [k |-> k, v |-> v]

A1 == Atom(N1, One)
A2 == Atom(N2, Two)
A3 == Atom(N3, Three)
AX == Atom(<<"\"", "x", "\"">>, Str(<<"x">>))
AY == Atom(<<"'", "y", "'">>, Str(<<"y">>))

\* an object in an object, with a key that comes twice
Inner == ObjectTerm(<<Member(<<"b">>, AX), Member(<<"a">>, A1), Member(<<"b">>, AY)>>)

Members == {Member(k, v) : k \in Keys, v \in {A1, A2, A3, AX, AY, Inner}}

\* the most members of a drawn object text
MaxMembers == 3

RECURSIVE Render(_)
RECURSIVE RenderMembers(_, _)
\* the text of a term
Render(t) ==
  IF t.kind = "atom" THEN t.tok
  ELSE <<"{">> \o RenderMembers(t.members, 1) \o <<"}">>
RenderMembers(ms, i) ==
  IF i > Len(ms) THEN <<>>
  ELSE (IF i > 1 THEN <<",">> ELSE <<>>)
       \o <<"\"">> \o ms[i].k \o <<"\"", ":">> \o Render(ms[i].v)
       \o RenderMembers(ms, i + 1)

\* the keys of a member list, each at its first occurrence
FirstKeys(ms) ==
  LET firsts == SelectSeq([i \in 1..Len(ms) |-> i],
                          LAMBDA i : \A j \in 1..(i - 1) : ms[j].k # ms[i].k)
  IN  [n \in 1..Len(firsts) |-> ms[firsts[n]].k]

\* the value of the last member with the key
LastOf(ms, key) ==
  LET last == CHOOSE i \in 1..Len(ms) :
                /\ ms[i].k = key
                /\ \A j \in (i + 1)..Len(ms) : ms[j].k # key
  IN  ms[last].v

\* the Value the contract asks for a term
RECURSIVE ValueOf(_)
ValueOf(t) ==
  IF t.kind = "atom" THEN t.val
  ELSE LET ks == FirstKeys(t.members)
       IN  Obj([n \in 1..Len(ks) |-> [k |-> ks[n], v |-> ValueOf(LastOf(t.members, ks[n]))]])

\* the pattern lists of the run: everything, and paths with a b
RunPatterns == {<<Pat(FALSE, <<>>, FALSE)>>, <<Pat(FALSE, <<"b">>, FALSE)>>}

Init ==
  /\ pc = "ready"
  /\ \E ms \in SeqsUpTo(Members, MaxMembers) : source = ObjectTerm(ms)
  /\ text = Render(source)
  /\ input \in {[is_patch |-> b, file_extension |-> Ext] : b \in BOOLEAN}
  /\ \E pl \in RunPatterns : config = (Ext :> pl)
  /\ result = NoValue /\ json_value = NoValue /\ flat = NoValue /\ batched = NoValue
  /\ NoCommand

Next == Parse \/ GenerateFlat \/ GenerateBatched

Spec == Init /\ [][Next]_vars

\* the text {"b":1,"a":2,"b":3}
BAB == ObjectTerm(<<Member(<<"b">>, A1), Member(<<"a">>, A2), Member(<<"b">>, A3)>>)

\* C7: a parsed object lists each key once, at the place of its first
\* occurrence in the text and with the value of its last occurrence, nested
\* objects included; {"b":1,"a":2,"b":3} gives b = 3 then a = 2; the
\* operations of the generator come in that order of the fields.
C7_KeyOrder ==
  /\ pc # "ready" =>
       /\ pc # "failed" /\ result.ok
       /\ json_value = ValueOf(source)
       /\ source = BAB =>
            json_value = Obj(<<[k |-> <<"b">>, v |-> Three], [k |-> <<"a">>, v |-> Two]>>)
  /\ pc \in {"flat", "done"} =>
       flat.ops = Expected(ValueOf(source), {"str", "arr"}, input.is_patch)
  /\ pc = "done" =>
       /\ Len(batched.ops) = Len(flat.ops)
       /\ \A i \in 1..Len(flat.ops) : batched.ops[i][2] = flat.ops[i]

\* {"b":"x","a":'y',"b":'y'}: b keeps the first place with its last value,
\* and the operation at /b comes before the one at /a
C7_Witness ==
  /\ pc = "done" /\ ~input.is_patch
  /\ source = ObjectTerm(<<Member(<<"b">>, AX), Member(<<"a">>, AY), Member(<<"b">>, AY)>>)
  /\ json_value = Obj(<<[k |-> <<"b">>, v |-> Str(<<"y">>)], [k |-> <<"a">>, v |-> Str(<<"y">>)]>>)
  /\ flat.ops = <<Emitted(<<"/", "b">>, Str(<<"y">>)), Emitted(<<"/", "a">>, Str(<<"y">>))>>

---------------------------------------------------------------------------
(* Texts with whitespace and comments put between the tokens of a          *)
(* parseable text.                                                         *)

True == <<"t", "r", "u", "e">>

\* the most tokens of a drawn parseable text
MaxBaseTokens == 5

BaseAlphabet == {LB, RB, LC, RC, Comma, Colon, N1, SA}

\* {"a":1,"b":2}
AB == <<LC, SA, Colon, N1, Comma, SB, Colon, N2, RC>>

\* {"a" /* c */ : 1, // trailing<LF> "b": 2}
ABFilled ==
  <<LC, SA, Sp, <<"/", "*", " ", "c", " ", "*", "/">>, Sp, Colon, Sp, N1, Comma, Sp,
    <<"/", "/", " ", "t", "r", "a", "i", "l", "i", "n", "g", "\n">>, Sp, SB, Colon, Sp, N2, RC>>

\* each member of the sequence is one whole token of the text: no two number
\* tokens touch
Tokenwise(t) == \A i \in 1..(Len(t) - 1) : ~(t[i] \in NumToks /\ t[i + 1] \in NumToks)

BaseTexts ==
  {t \in SeqsUpTo(BaseAlphabet, MaxBaseTokens) : Tokenwise(t) /\ WellFormed(Classes(t, 1))}
  \cup {AB, <<LB, True, Comma, SB, RB>>}

\* the tokens with f put after the first i of them, then g after the first j
Filled(toks, i, f, j, g) ==
  SubSeq(toks, 1, i) \o f \o SubSeq(toks, i + 1, j) \o g \o SubSeq(toks, j + 1, Len(toks))

\* nothing, one filler, or two fillers in a row
FillerRuns == {<<>>} \cup {<<f>> : f \in Fillers} \cup {<<Sp, f>> : f \in Fillers}

\* the runs put at the second place
SecondRuns == {<<>>, <<Lf>>, <<<<"/", "*", "*", "/">>>>, <<<<"/", "/", "c", "\n">>>>}

InitWs ==
  /\ pc = "ready"
  /\ \E base \in BaseTexts :
       \/ \E i \in 0..Len(base), f \in FillerRuns :
            \E j \in i..Len(base), g \in SecondRuns :
              source = [base |-> base, filled |-> Filled(base, i, f, j, g)]
       \/ \E i \in 0..Len(base), f \in FillerRuns :
            source = [base |-> base,
                      filled |-> Filled(base, i, f, Len(base), <<OpenLineComment>>)]
       \/ base = AB /\ source = [base |-> AB, filled |-> ABFilled]
  /\ text = Flatten(source.filled)
  /\ input = NoInput /\ config = (Ext :> <<>>)
  /\ result = NoValue /\ json_value = NoValue /\ flat = NoValue /\ batched = NoValue
  /\ NoCommand

SpecWs == InitWs /\ [][Parse]_vars

\* C8: a text made of the tokens of a parseable text with whitespace, line
\* comments and terminated block comments between them parses to the Value of
\* the parseable text; the text of the example parses as {"a":1,"b":2} does.
C8_FillersIgnored ==
  pc # "ready" =>
    /\ SelectSeq(source.filled, LAMBDA t : Class(t) # "fill") = source.base
    /\ parse(Flatten(source.base)).ok
    /\ result = parse(Flatten(source.base))
    /\ pc = "parsed" /\ json_value = result.v
    /\ source.filled = ABFilled =>
         json_value = Obj(<<[k |-> <<"a">>, v |-> One], [k |-> <<"b">>, v |-> Two]>>)

\* the example of the claim
C8_Witness ==
  /\ pc = "parsed"
  /\ source = [base |-> AB, filled |-> ABFilled]
  /\ json_value = Obj(<<[k |-> <<"a">>, v |-> One], [k |-> <<"b">>, v |-> Two]>>)

---------------------------------------------------------------------------
(* Number texts, drawn character by character *)

\* the most characters of a drawn number text
MaxNumLen == 4

NumChars == {"0", "1", "9", ".", "e", "-", "+", "x", "F"}

InfinityWord == <<"I", "n", "f", "i", "n", "i", "t", "y">>
NaNWord == <<"N", "a", "N">>

NumExamples ==
  { <<"1", "e", "2">>, <<"1", ".", "0">>, <<"0", "x", "1", "F">>, <<"1", "e", "1", "9">>,
    <<"-", "1", "e", "1", "9">>, <<"1", ".", "5", "e", "1">>, <<"0", "X", "f", "f">>,
    <<"-">> \o InfinityWord, <<"+">> \o InfinityWord, InfinityWord,
    <<"-">> \o NaNWord, <<"+">> \o NaNWord, NaNWord }

InitNum ==
  /\ pc = "ready"
  /\ source \in SeqsUpTo(NumChars, MaxNumLen) \cup NumExamples
  /\ text = source
  /\ input = NoInput /\ config = (Ext :> <<>>)
  /\ result = NoValue /\ json_value = NoValue /\ flat = NoValue /\ batched = NoValue
  /\ NoCommand

SpecNum == InitNum /\ [][Parse]_vars

\* 2^63 - 1
I64_MAX == [m |-> <<9, 2, 2, 3, 3, 7, 2, 0, 3, 6, 8, 5, 4, 7, 7, 5, 8, 0, 7>>, e |-> 0]

\* the value lies in -2^63 .. 2^63 - 1
FitsI64(v) == IF v.neg THEN CmpMag(v, I64_MAX_F) <= 0 ELSE CmpMag(v, I64_MAX) <= 0

\* the value lies in 0 .. 2^64 - 1
FitsU64(v) == (v.m = <<>> \/ ~v.neg) /\ CmpMag(v, U64_MAX) <= 0

StoredAsInteger(v) == v.n \in {"PosInt", "NegInt"}

\* C9: an accepted number is stored as an integer exactly when its value has
\* no fractional part and lies in the signed or in the unsigned 64-bit range,
\* whatever the form of its lexeme; 1.0, 1e2, 1e19 and 0x1F are stored as
\* integers.
C9_IntegerOrFloat ==
  (pc = "parsed" /\ json_value.t = "num") =>
    /\ StoredAsInteger(json_value) <=>
         (fract_is_zero(json_value) /\ (FitsI64(json_value) \/ FitsU64(json_value)))
    /\ source \in {<<"1", ".", "0">>, <<"1", "e", "2">>, <<"1", "e", "1", "9">>,
                   <<"0", "x", "1", "F">>} => StoredAsInteger(json_value)

\* a Number that holds the float f
NumberOf(f) == [t |-> "num", n |-> "Float", cls |-> f.cls, neg |-> f.neg, m |-> f.m, e |-> f.e]

\* C10: a sign followed by the word Infinity parses to the Number infinity
\* of that sign, and a sign followed by the word NaN to a NaN Number.
C10_SignedWords ==
  pc # "ready" =>
    /\ source = <<"-">> \o InfinityWord => (result.ok /\ result.v = NumberOf(Infinite(TRUE)))
    /\ source = <<"+">> \o InfinityWord => (result.ok /\ result.v = NumberOf(Infinite(FALSE)))
    /\ source \in {<<"-">> \o NaNWord, <<"+">> \o NaNWord} =>
         (result.ok /\ result.v = NumberOf(NaN))

---------------------------------------------------------------------------
(* Bare words at value positions: a word is wrapped in arrays, objects and *)
(* whitespace, outermost wrapper first.                                    *)

\* the most wrappers around a drawn word
MaxDepth == 3

Wrappers == {"array", "second", "member", "spaced"}

Words ==
  { InfinityWord, NaNWord, <<"t", "r", "u", "e">>, <<"n", "u", "l", "l">>,
    <<"I", "n", "f">>, <<"n", "a", "n">>, <<"N", "a", "N", "a">>, N1 }

RECURSIVE WrapText(_, _)
WrapText(ws, t) ==
  IF ws = <<>> THEN t
  ELSE LET in == WrapText(Tail(ws), t)
       IN  CASE Head(ws) = "array" -> LB \o in \o RB
             [] Head(ws) = "second" -> LB \o N1 \o Comma \o Sp \o in \o RB
             [] Head(ws) = "member" -> LC \o KA \o in \o RC
             [] Head(ws) = "spaced" -> Lf \o in \o <<"/", "*", "*", "/">>

RECURSIVE WrapValue(_, _)
WrapValue(ws, v) ==
  IF ws = <<>> THEN v
  ELSE LET in == WrapValue(Tail(ws), v)
       IN  CASE Head(ws) = "array" -> Arr(<<in>>)
             [] Head(ws) = "second" -> Arr(<<One, in>>)
             [] Head(ws) = "member" -> Obj(<<[k |-> <<"a">>, v |-> in]>>)
             [] Head(ws) = "spaced" -> in

InitWord ==
  /\ pc = "ready"
  /\ \E ws \in SeqsUpTo(Wrappers, MaxDepth), w \in Words :
       /\ source = <<ws, w>>
       /\ text = WrapText(ws, w)
  /\ input = NoInput /\ config = (Ext :> <<>>)
  /\ result = NoValue /\ json_value = NoValue /\ flat = NoValue /\ batched = NoValue
  /\ NoCommand

SpecWord == InitWord /\ [][Parse]_vars

\* C11: the bare word Infinity or NaN, with no sign before it, at a value
\* position (the whole text, an array element, a member value, at any depth)
\* parses to the String "Infinity" or "NaN": not to a Number, not to an error.
C11_BareWords ==
  (pc # "ready" /\ source[2] \in {InfinityWord, NaNWord}) =>
    /\ pc = "parsed" /\ result.ok
    /\ json_value = WrapValue(source[1], Str(source[2]))

\* [1, {"a":NaN}]
C11_Witness ==
  /\ pc = "parsed"
  /\ source = <<<<"second", "member">>, NaNWord>>
  /\ json_value = Arr(<<One, Obj(<<[k |-> <<"a">>, v |-> Str(NaNWord)]>>)>>)

---------------------------------------------------------------------------
(* Positions in diagnostics.  The current character of a cursor with index *)
(* at is the at-th character of the text, the end of input being the       *)
(* character after the last.                                               *)

\* the i-th character ends a line: LF, or CR not followed by LF
Terminator(txt, i) ==
  \/ txt[i] = "\n"
  \/ (txt[i] = "\r" /\ ~(i < Len(txt) /\ txt[i + 1] = "\n"))

Breaks(txt, k) == {i \in 1..(k - 1) : Terminator(txt, i)}

\* the 1-based line and column of the k-th character
LineOf(txt, k) == 1 + Cardinality(Breaks(txt, k))
ColumnOf(txt, k) ==
  LET b == Breaks(txt, k)
  IN  IF b = {} THEN k ELSE k - (CHOOSE i \in b : \A j \in b : j <= i)

\* C12: the line and column of every ParseError are the 1-based line and
\* column of the current character: line 1 column 1 for the first character,
\* the next column for each following one, column 1 of the next line after a
\* line terminator.
C12_OneBased ==
  pc = "failed" =>
    /\ result.err.line = LineOf(text, result.err.at)
    /\ result.err.column = ColumnOf(text, result.err.at)

---------------------------------------------------------------------------
(* String literals, drawn character by character: an opening quote and a   *)
(* body, at a value position or at a key position.                         *)

\* the most characters of a drawn string body
MaxBody == 4

BodyChars == {"\"", "'", "\\", "u", "0", "a"}

\* before a value: nothing, an array, a member; before a key: an object
ValuePrefixes == {<<>>, LB, LC \o KA}
KeyPrefixes == {LC}

InitStr ==
  /\ pc = "ready"
  /\ \E pre \in ValuePrefixes \cup KeyPrefixes, q \in {"\"", "'"},
        body \in SeqsUpTo(BodyChars, MaxBody) :
       /\ source = <<pre, q, body>>
       /\ text = pre \o <<q>> \o body
  /\ input = NoInput /\ config = (Ext :> <<>>)
  /\ result = NoValue /\ json_value = NoValue /\ flat = NoValue /\ batched = NoValue
  /\ NoCommand

SpecStr == InitStr /\ [][Parse]_vars

\* Where the body b of a literal opened by delim stands at its i-th
\* character, by the string grammar of spec section 4.1: "closed" when the
\* delimiter is met, "plain", "escape" or "unicode" when the input ends in
\* plain text, right after a backslash or inside \uXXXX, "invalid" at an
\* escape the grammar does not have.
RECURSIVE BodyEnd(_, _, _)
BodyEnd(b, i, delim) ==
  IF i > Len(b) THEN "plain"
  ELSE IF b[i] = delim THEN "closed"
  ELSE IF b[i] # "\\" THEN BodyEnd(b, i + 1, delim)
  ELSE IF i + 1 > Len(b) THEN "escape"
  ELSE IF b[i + 1] = "u"
       THEN IF \E k \in 2..5 : i + k <= Len(b) /\ b[i + k] \notin HexDigits THEN "invalid"
            ELSE IF i + 5 > Len(b) THEN "unicode"
            ELSE BodyEnd(b, i + 6, delim)
  ELSE IF b[i + 1] \in {"\"", "'", "\\", "/", "b", "f", "n", "r", "t"}
       THEN BodyEnd(b, i + 2, delim)
  ELSE "invalid"

Ending == BodyEnd(source[3], 1, source[2])

\* C15 as stated: wherever the input ends inside the literal, the diagnostic
\* is "Bad string".
C15_AlwaysBadString ==
  (pc # "ready" /\ Ending \in {"plain", "escape", "unicode"}) => Failed("Bad string")

\* C15: a string literal, value or key, that the input ends in makes parse
\* fail and no partial string is returned: with "Bad string" when the input
\* ends in plain text, with "Unexpected end of input in string escape" when it
\* ends right after a backslash, with "Invalid Unicode escape in string" when
\* it ends inside \uXXXX.
C15_Unterminated ==
  pc # "ready" =>
    /\ Ending = "plain" => Failed("Bad string")
    /\ Ending = "escape" => Failed("Unexpected end of input in string escape")
    /\ Ending = "unicode" => Failed("Invalid Unicode escape in string")

\* {'a\"  : a key opened by ' that runs to the end of the text
C15_Witness ==
  /\ Failed("Bad string")
  /\ source = <<LC, "'", <<"a", "\\", "\"">>>>

---------------------------------------------------------------------------
(* Texts drawn character by character, with the characters that start and  *)
(* end comments, strings, numbers and arrays.                              *)

\* the most characters of a drawn text
MaxChars == 4

CharAlphabet == {"/", "*", "\n", "\"", "\\", "[", "1", ","}

CharExamples ==
  { <<"[", "1", ",", "/", "*">>,
    <<"{", "\"", "a", "\"", ":", "1", ",", "'", "b", "'", ":", "[", "1", "]", "}">>,
    <<"{", "\"", "a", "\"", ":">>,
    <<"{", "\"", "a", "\"", ":", "1", ",", "/", "/">>,
    <<"\"", "\\", "u", "0", "0">>,
    <<"\"", "\\", "u", "0", "0", "4", "1", "\"">>,
    <<"[", "\"", "a", "\\", "\r", "\n", "b", "\"", " ", ",", "/", "/", "x", "\r", "\n", "1", "]">>,
    <<"/", "*", "*", "*", "/", " ", "1", "e">>,
    <<"0", "x", "1", "F">>, <<"1", ".", "5", "e", "-", "1">>,
    <<"t", "r", "u">>, <<"-">> \o InfinityWord, <<"[", "t", "r", "u", "e", ",", " ">> }

InitChars ==
  /\ pc = "ready"
  /\ source \in SeqsUpTo(CharAlphabet, MaxChars) \cup CharExamples
  /\ text = source
  /\ input = NoInput /\ config = (Ext :> <<>>)
  /\ result = NoValue /\ json_value = NoValue /\ flat = NoValue /\ batched = NoValue
  /\ NoCommand

SpecChars == InitChars /\ [][Parse]_vars

\* C16: the cursor index at is at most the text length plus one when parse
\* ends, with a Value or with a ParseError, and so in every state before,
\* since at only grows; the snippet range of every ParseError has
\* start <= end.
C16_CursorInText ==
  pc # "ready" =>
    LET bounded(r) ==
          IF r.ok THEN r.p.at <= Len(text) + 1
          ELSE r.err.at <= Len(text) + 1 /\ ~r.err.panic
    IN  bounded(parse_run(text))

\* [1,/*  : the end of input is read inside a block comment
C16_Witness ==
  /\ Failed("Unterminated block comment")
  /\ text = <<"[", "1", ",", "/", "*">>
  /\ result.err.at = Len(text) + 1
  /\ result.err.snippet = <<>>

\* a cursor whose current character is the k-th character of the text: the
\* synthetic blank before the first, the end of input after the last
CursorAt(txt, k) ==
  [at |-> k, line_number |-> 1, column_number |-> 1,
   ch |-> IF k = 0 THEN " " ELSE IF k <= Len(txt) THEN txt[k] ELSE None,
   text |-> txt]

\* the iteration s that starts at cursor p goes on only further in the text,
\* and not at all at the end of input
Progress(p, s) ==
  /\ s.again => s.p.at > p.at
  /\ p.ch = None => ~s.again

LoopsAdvance(p) ==
  /\ Progress(p, white_step(p))
  /\ Progress(p, inline_step(p))
  /\ Progress(p, star_step(p))
  /\ Progress(p, block_step(p))
  /\ \A radix \in {10, 16} : Progress(p, digit_step(p, <<>>, radix))
  /\ \A delim \in {"\"", "'"} : Progress(p, string_step(p, delim, <<>>))
  /\ \A had_comma \in BOOLEAN :
       /\ Progress(p, array_step(p, <<>>, had_comma))
       /\ Progress(p, object_step(p, <<>>, had_comma))

\* C17: parse ends on every text, with a Value or with a ParseError: at every
\* place of the text, one iteration of every loop of the parser (whitespace,
\* line comment, block comment, digits, string body, array, object) either
\* leaves the loop or goes on from a cursor further in the text, and at the
\* end of input it leaves the loop.
C17_Terminates ==
  pc # "ready" =>
    /\ pc \in {"parsed", "failed"}
    /\ result.ok <=> pc = "parsed"
    /\ \A k \in 0..(Len(text) + 1) : LoopsAdvance(CursorAt(text, k))

\* the string, whitespace, line comment, digit and array loops all iterate
\* in this text
C17_Witness ==
  /\ pc = "parsed"
  /\ text = <<"[", "\"", "a", "\\", "\r", "\n", "b", "\"", " ", ",", "/", "/", "x", "\r", "\n", "1", "]">>
  /\ json_value = Arr(<<Str(<<"a", "b">>), One>>)

---------------------------------------------------------------------------
(* Existing-patch mode outside the operations.                             *)

\* the proper ancestors of the position q, the root first
Ancestors(q) == {SubSeq(q, 1, n) : n \in 0..(Len(q) - 1)}

\* no object above q has the operation shape
Outside(v, q) == \A a \in Ancestors(q) : ~OpShaped(NodeAt(v, a))

\* the path of a position outside the operations: a field has its key alone,
\* an element has the path of its array, then / and its index
RECURSIVE RoutePath(_, _)
RoutePath(v, q) ==
  IF q = <<>> THEN <<>>
  ELSE IF NodeAt(v, Front(q)).t = "arr"
  THEN RoutePath(v, Front(q)) \o <<"/">> \o to_decimal(Last(q) - 1)
  ELSE NodeAt(v, Front(q)).o[Last(q)].k

\* the walk comes to q: no array above it is replaced as a unit
Reached(v, q) ==
  \A a \in Ancestors(q) : NodeAt(v, a).t = "arr" => ~Matches(RoutePath(v, a))

\* the positions outside the operations the walk comes to, in walk order
Route(v) == SelectSeq(PreOrder(v), LAMBDA q : Outside(v, q) /\ Reached(v, q))

\* the operations of the matched strings and arrays among the positions qs
OpsAt(v, qs) == [i \in 1..Len(qs) |-> Emitted(RoutePath(v, qs[i]), NodeAt(v, qs[i]))]

RouteOps(v, route) ==
  OpsAt(v, SelectSeq(route, LAMBDA q : /\ NodeAt(v, q).t \in {"str", "arr"}
                                       /\ Matches(RoutePath(v, q))))

Occurs(op, ops) == \E i \in 1..Len(ops) : ops[i] = op

\* the operation of the value of the operation-shaped object n, when that
\* value is a string or an array and the operation's path matches
ValueOps(n) ==
  LET val == map_get(n.o, K_value)
      path == map_get(n.o, K_path).s
  IN  IF val.t \in {"str", "arr"} /\ Matches(path) THEN {Emitted(path, val)} ELSE {}

\* C14: in existing-patch mode, outside every operation value, a field of an
\* object without the operation shape is visited with its key alone as the
\* path and an array element with the path of its array, then / and its
\* index; an operation-shaped object met on this route is still taken as an
\* operation.
C14_KeyAlone ==
  (pc = "flat" /\ input.is_patch /\ Known) =>
    LET holds(v, route, ops) ==
          /\ \A i \in 1..Len(ops) : Occurs(ops[i], flat.ops)
          /\ (\A i \in 1..Len(route) : ~OpShaped(NodeAt(v, route[i]))) => flat.ops = ops
          /\ \A i \in 1..Len(route) :
               OpShaped(NodeAt(v, route[i])) =>
                 \A op \in ValueOps(NodeAt(v, route[i])) : Occurs(op, flat.ops)
        on(v, route) == holds(v, route, RouteOps(v, route))
    IN  on(json_value, Route(json_value))

\* {"a":["x"]} : the element has the path a/0
C14_Witness ==
  /\ pc = "flat" /\ input.is_patch /\ Known
  /\ json_value = Obj(<<[k |-> <<"a">>, v |-> Arr(<<Str(<<"x">>)>>)]>>)
  /\ config[Ext] = <<Pat(FALSE, <<"/", "0">>, TRUE)>>
  /\ flat.ops = <<Emitted(<<"a", "/", "0">>, Str(<<"x">>))>>

---------------------------------------------------------------------------
(* The init command (src/cmd/init.rs).  disk maps the two configuration    *)
(* files of the executable's directory to their contents.                  *)

DirsConfig == "dirs_config.json"
RegexConfig == "regex_config.json"

\* the contents of a file that does not exist
Missing == "missing"

\* cmd/shared.rs: the built-in configurations
DEFAULT_DIR_CONFIG == "DEFAULT_DIR_CONFIG"
DEFAULT_REGEX_CONFIG == "DEFAULT_REGEX_CONFIG"

\* Path::exists
exists(fs, path) == fs[path] # Missing

\* fs::write
fs_write(fs, path, contents) == [fs EXCEPT ![path] = contents]

\* the first n writes of a list done in order
RECURSIVE write_all(_, _, _)
write_all(fs, writes, n) ==
  IF n = 0 THEN fs
  ELSE write_all(fs_write(fs, Head(writes).path, Head(writes).contents), Tail(writes), n - 1)

WriteDirs == [path |-> DirsConfig, contents |-> DEFAULT_DIR_CONFIG]
WriteRegex == [path |-> RegexConfig, contents |-> DEFAULT_REGEX_CONFIG]

\* init::run, lines 26..86: whether the run bails out, and the fs::write calls
\* it makes in order when none of them fails
writes_of(force, dir_exists, regex_exists) ==
  LET last == <<WriteDirs, WriteRegex>>
  IN  IF force THEN [bail |-> FALSE, writes |-> last]
      ELSE CASE dir_exists /\ regex_exists -> [bail |-> TRUE, writes |-> <<>>]
             [] dir_exists /\ ~regex_exists -> [bail |-> FALSE, writes |-> <<WriteRegex>> \o last]
             [] ~dir_exists /\ regex_exists -> [bail |-> FALSE, writes |-> <<WriteDirs>> \o last]
             [] OTHER -> [bail |-> FALSE, writes |-> <<WriteDirs, WriteRegex>> \o last]

\* init::run.  Each fs::write may fail; the run then returns the error, the
\* file of the failed write and every later one left as they were.
InitRun ==
  /\ pc = "init"
  /\ \E n \in 0..Len(writes_of(args.force, exists(disk, DirsConfig), exists(disk, RegexConfig)).writes) :
       LET ran(plan) ==
             /\ disk' = write_all(disk, plan.writes, n)
             /\ pc' = IF plan.bail \/ n < Len(plan.writes) THEN "init_failed" ELSE "init_done"
       IN  ran(writes_of(args.force, exists(disk, DirsConfig), exists(disk, RegexConfig)))
  /\ UNCHANGED <<source, input, text, result, json_value, config, flat, batched>>
  /\ UNCHANGED <<args, dir_whitelist, entries, input_files_map, output_files_map>>

\* what the two files may hold before the run
Contents == {Missing, DEFAULT_DIR_CONFIG, DEFAULT_REGEX_CONFIG, "[]", "{}", "edited"}

InitFiles ==
  /\ pc = "init"
  /\ args \in [cmd : {"init"}, force : BOOLEAN]
  /\ disk \in [{DirsConfig, RegexConfig} -> Contents]
  /\ source = disk
  /\ dir_whitelist = {} /\ entries = <<>> /\ input_files_map = <<>> /\ output_files_map = <<>>
  /\ input = NoInput /\ config = (Ext :> <<>>) /\ text = <<>>
  /\ result = NoValue /\ json_value = NoValue /\ flat = NoValue /\ batched = NoValue

SpecInit == InitFiles /\ [][InitRun]_vars

\* C13: without --force the init command leaves every configuration file
\* that exists as it is: after the run, a file that existed before has the
\* contents it had; when both exist the run fails and writes nothing.
C13_KeepsExisting ==
  (pc \in {"init_done", "init_failed"} /\ ~args.force) =>
    /\ \A f \in {DirsConfig, RegexConfig} : exists(source, f) => disk[f] = source[f]
    /\ (exists(source, DirsConfig) /\ exists(source, RegexConfig)) =>
         (pc = "init_failed" /\ disk = source)

---------------------------------------------------------------------------
(* The gen command (src/cmd/generate.rs).  A path below the input          *)
(* directory is [dir, name]: the first directory of the relative path and  *)
(* the file name as its parts between dots.  disk is the output directory: *)
(* a list of [k, v] entries, output path to contents, in the order of the  *)
(* first write.                                                            *)

\* get_extension_info
get_extension_info(name) ==
  LET file_extension == IF Len(name) >= 2 THEN name[Len(name)] ELSE ""
      is_patch == file_extension = "patch"
  IN  [ext |-> IF is_patch /\ Len(name) >= 3
               THEN name[Len(name) - 1] \o "." \o file_extension
               ELSE file_extension,
       is_patch |-> is_patch]

\* run, lines 51..68: the filter on the directory entries
selected(e) ==
  /\ e.is_file
  /\ \E dir \in dir_whitelist : e.dir = dir
  /\ contains_extension(config, get_extension_info(e.name).ext)

\* IndexMap::insert: a new key goes last, a key already there keeps its
\* place and takes the new value
index_insert(map, key, val) ==
  IF \E i \in 1..Len(map) : map[i].k = key
  THEN [i \in 1..Len(map) |-> IF map[i].k = key THEN [k |-> key, v |-> val] ELSE map[i]]
  ELSE Append(map, [k |-> key, v |-> val])

\* run, lines 93..100
output_file_path(file_path, is_patch) ==
  IF is_patch THEN file_path
  ELSE [dir |-> file_path.dir, name |-> Append(file_path.name, "patch")]

\* serde_json::to_string_pretty(&values): the JSON text of the operation
\* list, without the PatchData variant
to_string_pretty(patch) == [json |-> patch.ops]

\* run, lines 70..73: one directory entry.  An entry the filter drops is
\* passed over; read_to_string fails on a file that cannot be read.
ReadEntry ==
  /\ pc = "run" /\ entries # <<>>
  /\ LET read(e, info) ==
           IF ~selected(e) THEN UNCHANGED <<pc, input_files_map>>
           ELSE IF ~e.readable THEN pc' = "read_failed" /\ UNCHANGED input_files_map
           ELSE /\ input_files_map' =
                     index_insert(input_files_map, [dir |-> e.dir, name |-> e.name],
                                  [json_str |-> e.content, ext |-> info.ext,
                                   is_patch |-> info.is_patch])
                /\ UNCHANGED pc
     IN  read(Head(entries), get_extension_info(Head(entries).name))
  /\ entries' = Tail(entries)
  /\ UNCHANGED <<source, input, text, result, json_value, config, flat, batched>>
  /\ UNCHANGED <<args, dir_whitelist, output_files_map, disk>>

\* run, lines 84..103: one file of input_files_map, once the walk is over
GeneratePatch ==
  /\ pc = "run" /\ entries = <<>> /\ input_files_map # <<>>
  /\ LET kept(f, json_value_vec) ==
           IF is_empty(json_value_vec) THEN UNCHANGED output_files_map
           ELSE output_files_map' =
                  index_insert(output_files_map, output_file_path(f.k, f.v.is_patch),
                               json_value_vec)
         parsed(f, r) ==
           IF ~r.ok THEN pc' = "parse_failed" /\ result' = r /\ UNCHANGED output_files_map
           ELSE /\ kept(f, generate_patch(f.v.is_patch, r.v, f.v.ext, config, args.test))
                /\ UNCHANGED <<pc, result>>
     IN  parsed(Head(input_files_map), parse(Head(input_files_map).v.json_str))
  /\ input_files_map' = Tail(input_files_map)
  /\ UNCHANGED <<source, input, text, json_value, config, flat, batched>>
  /\ UNCHANGED <<args, dir_whitelist, entries, disk>>

\* run, lines 113..128: one file of output_files_map, once every patch is
\* made; create_dir_all and fs::write may fail
WriteOutput ==
  /\ pc = "run" /\ entries = <<>> /\ input_files_map = <<>> /\ output_files_map # <<>>
  /\ \E written \in BOOLEAN :
       IF written
       THEN /\ disk' = index_insert(disk, Head(output_files_map).k,
                                    to_string_pretty(Head(output_files_map).v))
            /\ UNCHANGED pc
       ELSE pc' = "write_failed" /\ UNCHANGED disk
  /\ output_files_map' = Tail(output_files_map)
  /\ UNCHANGED <<source, input, text, result, json_value, config, flat, batched>>
  /\ UNCHANGED <<args, dir_whitelist, entries, input_files_map>>

\* run, line 137
Finish ==
  /\ pc = "run" /\ entries = <<>> /\ input_files_map = <<>> /\ output_files_map = <<>>
  /\ pc' = "done"
  /\ UNCHANGED <<source, input, text, result, json_value, config, flat, batched>>
  /\ UNCHANGED cmd_vars

\* the most directory entries of a drawn input directory
MaxFiles == 3

Quote(cs) == <<"\"">> \o cs \o <<"\"">>

\* {"a":"x"}, {"b":1}, {"a": and two patch documents: a replace at /a and a
\* remove
T_ax == LC \o SA \o Colon \o Quote(<<"x">>) \o RC
T_b1 == LC \o SB \o Colon \o N1 \o RC
T_open == LC \o SA \o Colon
T_replace ==
  LB \o LC \o Quote(K_op) \o Colon \o Quote(S_replace) \o Comma
     \o Quote(K_path) \o Colon \o Quote(<<"/", "a">>) \o Comma
     \o Quote(K_value) \o Colon \o Quote(<<"x">>) \o RC \o RB
T_remove ==
  LB \o LC \o Quote(K_op) \o Colon \o Quote(<<"r", "e", "m", "o", "v", "e">>) \o Comma
     \o Quote(K_path) \o Colon \o Quote(<<"/", "a">>) \o RC \o RB

File(dir, name, content) ==
  [dir |-> dir, name |-> name, is_file |-> TRUE, readable |-> TRUE, content |-> content]

\* the entries a drawn input directory is made of
Catalog ==
  { File("items", <<"a", "json">>, T_ax),
    File("items", <<"b", "json">>, T_b1),
    File("items", <<"c", "json">>, T_open),
    File("items", <<"a", "json", "patch">>, T_replace),
    File("items", <<"e", "json", "patch">>, T_remove),
    [File("items", <<"f", "json">>, <<>>) EXCEPT !.readable = FALSE],
    File("items", <<"d", "png">>, T_ax),
    File("other", <<"a", "json">>, T_open),
    [File("items", <<"sub">>, <<>>) EXCEPT !.is_file = FALSE] }

RunConfig ==
  ("json" :> <<Pat(FALSE, <<"/", "a">>, FALSE)>>)
    @@ ("json.patch" :> <<Pat(FALSE, <<"/", "a">>, FALSE)>>)

InitRunGen ==
  /\ pc = "run"
  /\ args \in [cmd : {"gen"}, test : BOOLEAN]
  /\ dir_whitelist = {"items"}
  /\ config = RunConfig
  /\ entries \in {es \in SeqsUpTo(Catalog, MaxFiles) :
                    \A i, j \in 1..Len(es) : i # j => es[i] # es[j]}
  /\ source = entries
  /\ input_files_map = <<>> /\ output_files_map = <<>> /\ disk = <<>>
  /\ input = NoInput /\ text = <<>>
  /\ result = NoValue /\ json_value = NoValue /\ flat = NoValue /\ batched = NoValue

NextRun == ReadEntry \/ GeneratePatch \/ WriteOutput \/ Finish

SpecRun == InitRunGen /\ [][NextRun]_vars

\* what a selected input gives: whether it can be read and parsed, the
\* operations of its patch, its output path
Outcome(e) ==
  LET info == get_extension_info(e.name)
      made(r) ==
        [fails |-> ~r.ok,
         ops |-> IF r.ok THEN generate_patch(info.is_patch, r.v, info.ext, config, args.test).ops
                 ELSE <<>>,
         path |-> [dir |-> e.dir,
                   name |-> IF info.is_patch THEN e.name ELSE e.name \o <<"patch">>]]
  IN  IF e.readable THEN made(parse(e.content))
      ELSE [fails |-> TRUE, ops |-> <<>>, path |-> [dir |-> e.dir, name |-> e.name]]

Selected == SelectSeq(source, selected)

\* C18: when the output directory holds a file, every selected input has
\* been read and parsed and its patch made, none of them having failed; a run
\* that returns the error of a read or of a parse has written nothing; every
\* file written holds the operations, at least one, of a selected input with
\* that output path.
C18_AllBeforeWrite ==
  /\ disk # <<>> =>
       /\ entries = <<>> /\ input_files_map = <<>>
       /\ \A i \in 1..Len(Selected) : ~Outcome(Selected[i]).fails
  /\ pc \in {"read_failed", "parse_failed"} => disk = <<>>
  /\ \A n \in 1..Len(disk) :
       \E i \in 1..Len(Selected) :
         /\ Outcome(Selected[i]).path = disk[n].k
         /\ Outcome(Selected[i]).ops # <<>>
         /\ disk[n].v = [json |-> Outcome(Selected[i]).ops]

\* b.json gives no operation and a.json one: one file is written
C18_Witness ==
  /\ pc = "done"
  /\ source = <<File("items", <<"b", "json">>, T_b1), File("items", <<"a", "json">>, T_ax)>>
  /\ Len(disk) = 1
  /\ disk[1].k = [dir |-> "items", name |-> <<"a", "json", "patch">>]

====
